---------------------------- MODULE Spec2Model ----------------------------
(***************************************************************************)
(* Model of the corrodoro timer state machine (src/src/pomodoro.rs) and of  *)
(* its connection layer (src/src/net/server.rs).                           *)
(*                                                                         *)
(* A Duration is modelled as a natural number of time units in             *)
(* 0..DurationMax, DurationMax standing for Duration::MAX.  Arithmetic on  *)
(* Duration values follows std::time::Duration: `+`/`+=` and `-`/`-=`      *)
(* panic when the result is not representable, checked_add returns None.   *)
(* A panic is recorded in the field `panicked`; no operation runs after    *)
(* it.  Option<T> is modelled as a sequence: <<>> is None, <<d>> Some(d).  *)
(***************************************************************************)
EXTENDS Integers, Sequences, FiniteSets, TLC

\* ------------------------------------------------------------ bounds

\* Largest representable Duration (Duration::MAX), in model time units.
DurationMax == 3

\* Largest value of a Settings duration drawn at construction.
MaxSetting == 1

\* Largest `duration` argument passed to increase_progress.
MaxElapsed == 2

\* Largest `duration` argument passed to extend_activity / reduce_activity.
MaxDelta == 2

\* Cap on completed_focus_sessions (u32 in the source): operations that
\* would raise the counter above the cap are not taken.
MaxSessions == 5

\* Number of peer addresses that may connect to the server.
MaxPeers == 3

\* Capacity of the handoff channel between the accept loop and the
\* Server (mpsc::channel(32) in the source), in model connections.
ChannelCapacity == 2

\* Largest number of frames a peer has sent that the server has not read.
MaxInbox == 1

\* ------------------------------------------------------------ types

Activity == {"Focus", "ShortBreak", "LongBreak"}

None == <<>>

Some(d) == <<d>>

SettingsSet ==
    [focus_duration : 0..MaxSetting,
     short_break_duration : 0..MaxSetting,
     long_break_duration : 0..MaxSetting,
     start_automatically : BOOLEAN]

VARIABLES
    activity,                            \* State.activity
    progress,                            \* State.progress
    completed_focus_sessions,            \* State.completed_focus_sessions
    timer_is_active,                     \* State.timer_is_active
    settings,                            \* State.settings
    current_activity_duration_override,  \* State.current_activity_duration_override
    panicked,                            \* TRUE once an operation has panicked
    op,                                  \* history: name of the last operation
    arg,                                 \* history: its Duration argument (0 if none)
    changed,                             \* history: the operation changed the State
    focus_expiries,                      \* history: Focus activities ended by
                                         \* increase_progress since new()/reset()
    focus_skips                          \* history: Focus activities ended by
                                         \* skip_activity since new()/reset()

VARIABLES
    connections_rx,      \* Server.connections_rx: queued (addr, stream), as addrs
    connected_clients,   \* Server.connected_clients: the keys of the map
    link,                \* per address: the TCP connection behind its stream
    inbox,               \* per address: frames the peer sent, not yet read
    srv_op,              \* history: the Server call or environment step
                         \* that led to this state
    srv_peer,            \* history: the peer a recv_frame step was about
    written,             \* history: peers that step's broadcast wrote to
    failed,              \* history: peers whose write failed in it
    drained,             \* history: connections that step took off the channel
    srv_result,          \* history: the value the call returned in that step
                         \* ("Pending": recv_frame still waits, "None": no call)
    observed_failed      \* history: connections on which a Server call has
                         \* observed a write or read failure or the stream's end

VARIABLES
    pc,                  \* where App::run_inner stands: "render" (top of the
                         \* loop), "select", "exited" (returned Ok),
                         \* "failed" (returned Err); "offline" when no run
                         \* loop is modelled
    branch,              \* history: the select! branch that completed in the
                         \* last step of the run loop
    clock_reset,         \* history: that step reset the tick reference
                         \* (pomodoro_clock.reset(), pomodoro_start_time = now)
    inbound              \* history: the event that step handled, from the
                         \* terminal or from a peer; IgnoredMessage for a
                         \* received message that is no Event; else NoEvent

host_vars == <<pc, branch, clock_reset, inbound>>

VARIABLES
    since_ref,           \* time that has passed since pomodoro_start_time
    idle_in_ref,         \* the part of it during which the timer was inactive
    idle_dropped         \* history: the inactive time that the last reset of
                         \* the reference by handle_event left out

clock_vars == <<since_ref, idle_in_ref, idle_dropped>>

VARIABLES
    client_conn,         \* Client.stream: the connection to the server
    client_inbox,        \* messages the server sent, not yet received
    client_screen,       \* the TimerVisuals last rendered by the client
    client_pc,           \* where ClientApp::run_inner stands
    client_op,           \* history: the Client call of the last step
    client_result,       \* history: what that call returned
    client_out           \* history: the event of the Event message that
                         \* the last step passed to Client::send

client_vars == <<client_conn, client_inbox, client_screen, client_pc,
                 client_op, client_result, client_out>>

VARIABLES
    wire_family,         \* the message type in use: "NetworkProtocol",
                         \* "ClientMessage" or "ServerMessage"
    wire_msg,            \* the message that was serialized
    wire_frame,          \* the frame in flight, a sequence of bytes
    wire_damage,         \* history: what happened to the frame in flight
    wire_decoded,        \* the Result of deserializing the frame
    wire_step            \* history: the last step on the wire

wire_vars == <<wire_family, wire_msg, wire_frame, wire_damage, wire_decoded,
               wire_step>>

net_vars == <<connections_rx, connected_clients, link, inbox, srv_op, srv_peer,
              written, failed, drained, srv_result, observed_failed>>

state_vars == <<activity, progress, completed_focus_sessions, timer_is_active,
                settings, current_activity_duration_override, panicked>>

VARIABLES
    num_activity,        \* PomodoroState.num_activity (state.rs)
    timer_is_stopped,    \* the timer_is_stopped flag of the state that the
                         \* state-transformer thread owns
    accepted_clients,    \* app/net.rs Server.accepted_clients: its keys
    clients_field,       \* app/net.rs Server.clients, as a set
    listening,           \* the accept loop (listen) is running
    held,                \* the connection listen has accepted and not yet
                         \* sent on the channel; 0 if none
    rx_open,             \* the Server, and with it connections_rx, exists
    st_pc,               \* where state_transformer_thread stands
    ui_pc,               \* where ui_thread stands
    events,              \* the events channel: messages sent, not received
    close_ui             \* the close_ui channel: notifications not received

aux_vars == <<num_activity, timer_is_stopped, accepted_clients, clients_field,
              listening, held, rx_open, st_pc, ui_pc, events, close_ui>>

vars == <<activity, progress, completed_focus_sessions, timer_is_active,
          settings, current_activity_duration_override, panicked,
          op, arg, changed, focus_expiries, focus_skips,
          connections_rx, connected_clients, link, inbox, srv_op, srv_peer,
          written, failed, drained, srv_result, observed_failed,
          pc, branch, clock_reset, inbound, since_ref, idle_in_ref, idle_dropped,
          client_conn, client_inbox, client_screen, client_pc, client_op,
          client_result, client_out,
          wire_family, wire_msg, wire_frame, wire_damage, wire_decoded,
          wire_step,
          num_activity, timer_is_stopped, accepted_clients, clients_field,
          listening, held, rx_open, st_pc, ui_pc, events, close_ui>>

\* The State struct as a record; the operators below are the methods of
\* `impl State`, taking self and returning the State after the call.
Cur ==
    [activity |-> activity,
     progress |-> progress,
     completed_focus_sessions |-> completed_focus_sessions,
     timer_is_active |-> timer_is_active,
     settings |-> settings,
     current_activity_duration_override |-> current_activity_duration_override,
     panicked |-> panicked]

\* ------------------------------------------------------------ State methods

State_new(s) ==
    [activity |-> "Focus",
     progress |-> 0,
     completed_focus_sessions |-> 0,
     timer_is_active |-> s.start_automatically,
     settings |-> s,
     current_activity_duration_override |-> None,
     panicked |-> FALSE]

is_focus(a) == a = "Focus"

current_activity_duration(self) ==
    IF self.current_activity_duration_override # None
    THEN self.current_activity_duration_override[1]
    ELSE CASE self.activity = "Focus" -> self.settings.focus_duration
           [] self.activity = "ShortBreak" -> self.settings.short_break_duration
           [] self.activity = "LongBreak" -> self.settings.long_break_duration

\* Variant of next_activity that tests the number of Focus sessions
\* completed before the one that just ended.
next_activity_before_increment(self) ==
    CASE self.activity = "Focus" ->
            IF (self.completed_focus_sessions + 3) % 4 = 0
            THEN "LongBreak"
            ELSE "ShortBreak"
      [] self.activity = "ShortBreak" -> "Focus"
      [] self.activity = "LongBreak" -> "Focus"

next_activity(self) ==
    CASE self.activity = "Focus" ->
            IF self.completed_focus_sessions % 4 = 0
            THEN "LongBreak"
            ELSE "ShortBreak"
      [] self.activity = "ShortBreak" -> "Focus"
      [] self.activity = "LongBreak" -> "Focus"

start_timer(self) == [self EXCEPT !.timer_is_active = TRUE]

stop_timer(self) == [self EXCEPT !.timer_is_active = FALSE]

toggle_timer(self) == [self EXCEPT !.timer_is_active = ~self.timer_is_active]

\* Duration::checked_add: None when the sum is not representable.
checked_add(a, b) == IF a + b <= DurationMax THEN Some(a + b) ELSE None

\* Duration - Duration panics when the result would be negative.
sub_panics(a, b) == b > a

\* Variant of end_of_activity that does not stop the timer when
\* start_automatically is false.
end_of_activity_timer_running(s1) ==
    LET max_duration == current_activity_duration(s1)
        s2 == IF s1.settings.start_automatically
              THEN start_timer([s1 EXCEPT !.progress = s1.progress - max_duration])
              ELSE [s1 EXCEPT !.progress = 0]
        s3 == [s2 EXCEPT !.current_activity_duration_override = None]
        s4 == IF is_focus(s3.activity)
              THEN [s3 EXCEPT !.completed_focus_sessions = @ + 1]
              ELSE s3
    IN  [s4 EXCEPT !.activity = next_activity(s4)]

\* Variant of end_of_activity that drops the overshoot when
\* start_automatically is true.
end_of_activity_no_carry(s1) ==
    LET s2 == IF s1.settings.start_automatically
              THEN start_timer([s1 EXCEPT !.progress = 0])
              ELSE stop_timer([s1 EXCEPT !.progress = 0])
        s3 == [s2 EXCEPT !.current_activity_duration_override = None]
        s4 == IF is_focus(s3.activity)
              THEN [s3 EXCEPT !.completed_focus_sessions = @ + 1]
              ELSE s3
    IN  [s4 EXCEPT !.activity = next_activity(s4)]

\* The body of increase_progress after `*self.progress += duration`,
\* with s1 the state holding the increased progress.
end_of_activity(s1) ==
    LET max_duration == current_activity_duration(s1)
        s2 == IF s1.settings.start_automatically
              THEN start_timer([s1 EXCEPT !.progress = s1.progress - max_duration])
              ELSE stop_timer([s1 EXCEPT !.progress = 0])
        s3 == [s2 EXCEPT !.current_activity_duration_override = None]
        s4 == IF is_focus(s3.activity)
              THEN [s3 EXCEPT !.completed_focus_sessions = @ + 1]
              ELSE s3
    IN  [s4 EXCEPT !.activity = next_activity(s4)]

increase_progress(self, duration) ==
    IF checked_add(self.progress, duration) = None
    THEN [self EXCEPT !.panicked = TRUE]
    ELSE LET s1 == [self EXCEPT !.progress = self.progress + duration]
         IN  IF s1.progress >= current_activity_duration(s1)
             THEN end_of_activity(s1)
             ELSE s1

\* Variant of skip_activity that does not count the skipped Focus.
skip_activity_no_count(self) ==
    LET s1 == [self EXCEPT !.progress = 0,
                           !.current_activity_duration_override = None]
        s3 == IF s1.settings.start_automatically
              THEN start_timer(s1)
              ELSE stop_timer(s1)
    IN  [s3 EXCEPT !.activity = next_activity(s3)]

\* Variant of skip_activity that computes the next activity before it
\* counts the skipped Focus.
skip_activity_next_first(self) ==
    LET s1 == [self EXCEPT !.progress = 0,
                           !.current_activity_duration_override = None]
        s2 == [s1 EXCEPT !.activity = next_activity(s1)]
        s3 == IF is_focus(s1.activity)
              THEN [s2 EXCEPT !.completed_focus_sessions = @ + 1]
              ELSE s2
    IN  IF s3.settings.start_automatically
        THEN start_timer(s3)
        ELSE stop_timer(s3)

skip_activity(self) ==
    LET s1 == [self EXCEPT !.progress = 0,
                           !.current_activity_duration_override = None]
        s2 == IF is_focus(s1.activity)
              THEN [s1 EXCEPT !.completed_focus_sessions = @ + 1]
              ELSE s1
        s3 == IF s2.settings.start_automatically
              THEN start_timer(s2)
              ELSE stop_timer(s2)
    IN  [s3 EXCEPT !.activity = next_activity(s3)]

\* Variant of extend_activity that saturates at the largest Duration
\* instead of doing nothing on overflow.
extend_activity_saturating(self, duration) ==
    LET sum == checked_add(current_activity_duration(self), duration)
    IN  IF sum # None
        THEN [self EXCEPT !.current_activity_duration_override = Some(sum[1])]
        ELSE [self EXCEPT !.current_activity_duration_override = Some(DurationMax)]

extend_activity(self, duration) ==
    LET sum == checked_add(current_activity_duration(self), duration)
    IN  IF sum # None
        THEN [self EXCEPT !.current_activity_duration_override = Some(sum[1])]
        ELSE self

\* time_remaining: current_activity_duration - progress, which panics
\* when progress exceeds the duration.
time_remaining_panics(self) ==
    sub_panics(current_activity_duration(self), self.progress)

time_remaining(self) == current_activity_duration(self) - self.progress

\* progress_percentage: an f64 division of the two durations.  A zero
\* divisor does not panic: 0.0 / 0.0 is NaN and x / 0.0 is infinite.  The
\* quotient is kept as the pair num / den.
progress_percentage(self) ==
    LET den == current_activity_duration(self)
    IN  [kind |-> IF den # 0 THEN "ratio"
                  ELSE IF self.progress = 0 THEN "NaN" ELSE "inf",
         num |-> self.progress,
         den |-> den]

\* Variant of reduce_activity that also restarts the activity.
reduce_activity_restarts(self, duration) ==
    IF time_remaining_panics(self)
    THEN [self EXCEPT !.panicked = TRUE]
    ELSE IF time_remaining(self) > duration
         THEN [self EXCEPT !.current_activity_duration_override =
                               Some(current_activity_duration(self) - duration),
                           !.progress = 0]
         ELSE self

reduce_activity(self, duration) ==
    IF time_remaining_panics(self)
    THEN [self EXCEPT !.panicked = TRUE]
    ELSE IF time_remaining(self) > duration
         THEN [self EXCEPT !.current_activity_duration_override =
                               Some(current_activity_duration(self) - duration)]
         ELSE self

\* Variant of reset that keeps the duration override.
reset_keeps_override(self) ==
    [self EXCEPT !.activity = "Focus",
                 !.progress = 0,
                 !.completed_focus_sessions = 0,
                 !.timer_is_active = self.settings.start_automatically]

\* Variant of reset that leaves timer_is_active as it is.
reset_keeps_timer(self) ==
    [self EXCEPT !.activity = "Focus",
                 !.progress = 0,
                 !.completed_focus_sessions = 0,
                 !.current_activity_duration_override = None]

reset(self) ==
    [self EXCEPT !.activity = "Focus",
                 !.progress = 0,
                 !.completed_focus_sessions = 0,
                 !.timer_is_active = self.settings.start_automatically,
                 !.current_activity_duration_override = None]

\* ------------------------------------------------------------ actions

\* The variables take the fields of the State `s2` an operation returned.
Apply(s2) ==
    /\ activity' = s2.activity
    /\ progress' = s2.progress
    /\ completed_focus_sessions' = s2.completed_focus_sessions
    /\ timer_is_active' = s2.timer_is_active
    /\ settings' = s2.settings
    /\ current_activity_duration_override' = s2.current_activity_duration_override
    /\ panicked' = s2.panicked
    /\ UNCHANGED net_vars
    /\ UNCHANGED host_vars
    /\ UNCHANGED clock_vars
    /\ UNCHANGED wire_vars
    /\ UNCHANGED aux_vars
    /\ UNCHANGED client_vars

\* The values of `inbound` for a step that handled no event.
NoEvent == [cmd |-> "none", d |-> 0]
IgnoredMessage == [cmd |-> "ignored", d |-> 0]

\* The earlier versions of the program and the accept loop are not
\* followed.
AuxIdle ==
    /\ num_activity = 0
    /\ timer_is_stopped = TRUE
    /\ accepted_clients = {}
    /\ clients_field = {}
    /\ listening = TRUE
    /\ held = 0
    /\ rx_open = TRUE
    /\ st_pc = "none"
    /\ ui_pc = "none"
    /\ events = <<>>
    /\ close_ui = 0

\* No client is connected.
ClientIdle ==
    /\ client_conn = "none"
    /\ client_inbox = <<>>
    /\ client_screen = <<>>
    /\ client_pc = "none"
    /\ client_op = "none"
    /\ client_result = "None"
    /\ client_out = NoEvent

\* The passing of time is not followed.
ClockIdle ==
    /\ since_ref = 0
    /\ idle_in_ref = 0
    /\ idle_dropped = 0

\* No message has been serialized.
WireIdle ==
    /\ wire_family = "NetworkProtocol"
    /\ wire_msg = <<>>
    /\ wire_frame = <<>>
    /\ wire_damage = "none"
    /\ wire_decoded = <<>>
    /\ wire_step = "idle"

\* No Server has been bound: the connection layer is idle.
NetIdle ==
    /\ connections_rx = <<>>
    /\ connected_clients = {}
    /\ link = [p \in 1..MaxPeers |-> "none"]
    /\ inbox = [p \in 1..MaxPeers |-> 0]
    /\ srv_op = "bind"
    /\ srv_peer = 0
    /\ written = {}
    /\ failed = {}
    /\ drained = {}
    /\ srv_result = [kind |-> "Ok", errors |-> <<>>]
    /\ observed_failed = {}

Init ==
    /\ \E s \in SettingsSet :
          /\ activity = State_new(s).activity
          /\ progress = State_new(s).progress
          /\ completed_focus_sessions = State_new(s).completed_focus_sessions
          /\ timer_is_active = State_new(s).timer_is_active
          /\ settings = State_new(s).settings
          /\ current_activity_duration_override =
                 State_new(s).current_activity_duration_override
          /\ panicked = State_new(s).panicked
    /\ op = "new"
    /\ arg = 0
    /\ changed = FALSE
    /\ focus_expiries = 0
    /\ focus_skips = 0
    /\ NetIdle
    /\ pc = "offline"
    /\ branch = "none"
    /\ clock_reset = FALSE
    /\ inbound = NoEvent
    /\ ClockIdle
    /\ AuxIdle
    /\ WireIdle
    /\ ClientIdle

\* increase_progress ends the current activity.
Expires(self, duration) ==
    /\ checked_add(self.progress, duration) # None
    /\ self.progress + duration >= current_activity_duration(self)

IncreaseProgress(duration) ==
    /\ ~panicked
    /\ increase_progress(Cur, duration).completed_focus_sessions <= MaxSessions
    /\ Apply(increase_progress(Cur, duration))
    /\ op' = "increase_progress"
    /\ arg' = duration
    /\ changed' = (state_vars' # state_vars)
    /\ focus_expiries' = IF Expires(Cur, duration) /\ is_focus(activity)
                         THEN focus_expiries + 1
                         ELSE focus_expiries
    /\ UNCHANGED focus_skips

SkipActivity ==
    /\ ~panicked
    /\ skip_activity(Cur).completed_focus_sessions <= MaxSessions
    /\ Apply(skip_activity(Cur))
    /\ op' = "skip_activity"
    /\ arg' = 0
    /\ changed' = (state_vars' # state_vars)
    /\ focus_skips' = IF is_focus(activity) THEN focus_skips + 1 ELSE focus_skips
    /\ UNCHANGED focus_expiries

ExtendActivity(duration) ==
    /\ ~panicked
    /\ Apply(extend_activity(Cur, duration))
    /\ op' = "extend_activity"
    /\ arg' = duration
    /\ changed' = (state_vars' # state_vars)
    /\ UNCHANGED <<focus_expiries, focus_skips>>

ReduceActivity(duration) ==
    /\ ~panicked
    /\ Apply(reduce_activity(Cur, duration))
    /\ op' = "reduce_activity"
    /\ arg' = duration
    /\ changed' = (state_vars' # state_vars)
    /\ UNCHANGED <<focus_expiries, focus_skips>>

StartTimer ==
    /\ ~panicked
    /\ Apply(start_timer(Cur))
    /\ op' = "start_timer"
    /\ arg' = 0
    /\ changed' = (state_vars' # state_vars)
    /\ UNCHANGED <<focus_expiries, focus_skips>>

StopTimer ==
    /\ ~panicked
    /\ Apply(stop_timer(Cur))
    /\ op' = "stop_timer"
    /\ arg' = 0
    /\ changed' = (state_vars' # state_vars)
    /\ UNCHANGED <<focus_expiries, focus_skips>>

ToggleTimer ==
    /\ ~panicked
    /\ Apply(toggle_timer(Cur))
    /\ op' = "toggle_timer"
    /\ arg' = 0
    /\ changed' = (state_vars' # state_vars)
    /\ UNCHANGED <<focus_expiries, focus_skips>>

Reset ==
    /\ ~panicked
    /\ Apply(reset(Cur))
    /\ op' = "reset"
    /\ arg' = 0
    /\ changed' = (state_vars' # state_vars)
    /\ focus_expiries' = 0
    /\ focus_skips' = 0

Next ==
    \/ \E duration \in 0..MaxElapsed : IncreaseProgress(duration)
    \/ SkipActivity
    \/ \E duration \in 0..MaxDelta : ExtendActivity(duration)
    \/ \E duration \in 0..MaxDelta : ReduceActivity(duration)
    \/ StartTimer
    \/ StopTimer
    \/ ToggleTimer
    \/ Reset

Spec == Init /\ [][Next]_vars


\* ------------------------------------------------------------ vocabulary of the properties

\* The Settings field of an activity.
SettingsDuration(a) ==
    CASE a = "Focus" -> settings.focus_duration
      [] a = "ShortBreak" -> settings.short_break_duration
      [] a = "LongBreak" -> settings.long_break_duration

\* effective_duration: the override if present, else the Settings field
\* of the current activity.
EffectiveDuration ==
    IF current_activity_duration_override = None
    THEN SettingsDuration(activity)
    ELSE current_activity_duration_override[1]

\* The activity that follows `a`, `count` being the number of completed
\* Focus sessions after the one that just ended was counted.
FollowingActivity(a, count) ==
    IF a = "Focus"
    THEN IF count % 4 = 0 THEN "LongBreak" ELSE "ShortBreak"
    ELSE "Focus"

\* A step is identified by the operation it records: op' names the
\* operation that took the step and arg' its Duration argument.

\* This step is increase_progress(arg') reaching the duration (without
\* the addition overflowing).
ExpiryStep ==
    /\ op' = "increase_progress"
    /\ progress + arg' <= DurationMax
    /\ progress + arg' >= EffectiveDuration

\* This step ends a Focus activity, by expiry or by skip.
FocusEndStep ==
    /\ activity = "Focus"
    /\ (op' = "skip_activity" \/ ExpiryStep)

\* ------------------------------------------------------------ C1

\* C1: with start_automatically = false and no skip since the fresh
\* state, completed_focus_sessions equals the number n of Focus
\* activities ended by increase_progress; the activity entered when the
\* k-th Focus ends is LongBreak iff k % 4 = 0 and ShortBreak otherwise;
\* a break that ends is followed by Focus.
C1_FocusCycle ==
    /\ []((~settings.start_automatically /\ focus_skips = 0)
            => completed_focus_sessions = focus_expiries)
    /\ [][(ExpiryStep /\ ~settings.start_automatically /\ focus_skips = 0)
            => IF activity = "Focus"
               THEN /\ focus_expiries' = focus_expiries + 1
                    /\ activity' = IF focus_expiries' % 4 = 0
                                   THEN "LongBreak"
                                   ELSE "ShortBreak"
               ELSE activity' = "Focus"]_vars

\* The 4th Focus in a row has ended by expiry and LongBreak was entered.
C1_Witness ==
    /\ op = "increase_progress"
    /\ ~settings.start_automatically
    /\ focus_skips = 0
    /\ focus_expiries = 4
    /\ completed_focus_sessions = 4
    /\ activity = "LongBreak"

\* ------------------------------------------------------------ C2

\* C2: with start_automatically = false, an increase_progress that makes
\* progress >= effective_duration leaves progress = 0, the timer
\* inactive, no override, the following activity, and the counter
\* incremented iff the ended activity was Focus.
C2_ExpiryParksTimer ==
    [][(ExpiryStep /\ ~settings.start_automatically)
        => /\ progress' = 0
           /\ timer_is_active' = FALSE
           /\ current_activity_duration_override' = None
           /\ completed_focus_sessions' =
                 completed_focus_sessions + (IF activity = "Focus" THEN 1 ELSE 0)
           /\ activity' = FollowingActivity(activity, completed_focus_sessions')
           /\ ~panicked']_vars

\* focus = 1, increase_progress(1) from the initial state: ShortBreak,
\* inactive, progress 0, count 1.
C2_Witness ==
    /\ op = "increase_progress"
    /\ arg = 1
    /\ ~settings.start_automatically
    /\ settings.focus_duration = 1
    /\ focus_expiries = 1
    /\ focus_skips = 0
    /\ activity = "ShortBreak"
    /\ ~timer_is_active
    /\ progress = 0
    /\ completed_focus_sessions = 1

\* ------------------------------------------------------------ C3

\* C3: with start_automatically = true, an increase_progress that makes
\* progress >= effective_duration leaves progress = old progress +
\* elapsed - effective_duration of the ended activity, the timer active,
\* and the following activity.
C3_ExpiryCarriesOvershoot ==
    [][(ExpiryStep /\ settings.start_automatically)
        => /\ progress' = progress + arg' - EffectiveDuration
           /\ timer_is_active' = TRUE
           /\ activity' = FollowingActivity(activity,
                 completed_focus_sessions + (IF activity = "Focus" THEN 1 ELSE 0))
           /\ ~panicked']_vars

\* Focus of duration 1 ended by increase_progress(2): ShortBreak entered
\* with an overshoot of 1 carried over and the timer running.
C3_Witness ==
    /\ op = "increase_progress"
    /\ arg = 2
    /\ settings.start_automatically
    /\ settings.focus_duration = 1
    /\ focus_expiries = 1
    /\ completed_focus_sessions = 1
    /\ activity = "ShortBreak"
    /\ progress = 1
    /\ timer_is_active

\* ------------------------------------------------------------ C4

\* C4: in every reachable state, 0 <= progress < effective_duration(activity).
C4_ProgressBelowDuration ==
    0 <= progress /\ progress < EffectiveDuration

\* ------------------------------------------------------------ C5

\* C5: completed_focus_sessions increases by exactly 1 in each step in
\* which a Focus activity ends (expiry or skip), is unchanged by every
\* other step except reset, and decreases only in reset, which sets it
\* to 0.
C5_CounterSteps ==
    [][/\ FocusEndStep => completed_focus_sessions' = completed_focus_sessions + 1
       /\ (~FocusEndStep /\ op' # "reset")
            => completed_focus_sessions' = completed_focus_sessions
       /\ op' = "reset" => completed_focus_sessions' = 0
       /\ completed_focus_sessions' < completed_focus_sessions
            => op' = "reset"]_vars

\* Focus activities have ended both by expiry and by skip, the last one
\* by skip, and each was counted once.
C5_Witness ==
    /\ op = "skip_activity"
    /\ focus_expiries > 0
    /\ focus_skips > 0
    /\ completed_focus_sessions = focus_expiries + focus_skips
    /\ activity # "Focus"

\* ------------------------------------------------------------ C6

\* C6: skip_activity leaves progress = 0, no override, the counter
\* incremented iff the current activity was Focus, the following
\* activity computed from the incremented counter, and timer_is_active =
\* start_automatically.
C6_Skip ==
    [][op' = "skip_activity"
        => /\ progress' = 0
           /\ current_activity_duration_override' = None
           /\ completed_focus_sessions' =
                 completed_focus_sessions + (IF activity = "Focus" THEN 1 ELSE 0)
           /\ activity' = FollowingActivity(activity, completed_focus_sessions')
           /\ timer_is_active' = settings.start_automatically
           /\ settings' = settings
           /\ ~panicked']_vars

\* Four Focus activities were skipped, the last skip entered LongBreak.
C6_Witness ==
    /\ op = "skip_activity"
    /\ focus_skips = 4
    /\ completed_focus_sessions = 4
    /\ activity = "LongBreak"
    /\ progress = 0
    /\ current_activity_duration_override = None

\* ------------------------------------------------------------ C7

\* C7: reduce_activity(d) sets the override to effective_duration - d
\* exactly when effective_duration - progress > d and otherwise leaves
\* the whole state unchanged; if time remained before, time remains after.
C7_ReduceGuard ==
    [][op' = "reduce_activity"
        => /\ IF EffectiveDuration - progress > arg'
              THEN /\ current_activity_duration_override' =
                         Some(EffectiveDuration - arg')
                   /\ UNCHANGED <<activity, progress, completed_focus_sessions,
                                  timer_is_active, settings, panicked>>
              ELSE UNCHANGED state_vars
           /\ (EffectiveDuration - progress > 0)
                => (EffectiveDuration' - progress' > 0)]_vars

\* ------------------------------------------------------------ C8

\* C8: extend_activity(d) sets the override to effective_duration + d
\* when the sum is representable, and leaves the state unchanged when
\* the sum would overflow.
C8_ExtendOverflow ==
    [][op' = "extend_activity"
        => IF EffectiveDuration + arg' <= DurationMax
           THEN /\ current_activity_duration_override' =
                      Some(EffectiveDuration + arg')
                /\ UNCHANGED <<activity, progress, completed_focus_sessions,
                               timer_is_active, settings, panicked>>
           ELSE UNCHANGED state_vars]_vars

\* extend_activity(1) was called at the largest representable duration
\* and changed nothing.
C8_Witness ==
    /\ op = "extend_activity"
    /\ arg = 1
    /\ ~changed
    /\ ~panicked
    /\ EffectiveDuration = DurationMax

\* ------------------------------------------------------------ C9

\* C9: extend_activity(d) that does not overflow, immediately followed
\* by reduce_activity(d), leaves effective_duration as it was before the
\* extend, and activity, progress, counter and timer_is_active unchanged.
\* (After an extend(d) that took effect the override is the former
\* effective_duration + d.)
C9_ExtendReduceRoundTrip ==
    [][(/\ op = "extend_activity"
        /\ current_activity_duration_override # None
        /\ (changed \/ arg = 0)
        /\ op' = "reduce_activity"
        /\ arg' = arg)
        => /\ EffectiveDuration' = EffectiveDuration - arg
           /\ UNCHANGED <<activity, progress, completed_focus_sessions,
                          timer_is_active>>
           /\ ~panicked']_vars

\* ------------------------------------------------------------ C10

\* C10: whenever a step changes the current activity, no override is
\* present afterwards and the new activity has its Settings duration.
C10_OverrideClearedOnChange ==
    [][activity' # activity
        => /\ current_activity_duration_override' = None
           /\ EffectiveDuration' = SettingsDuration(activity')]_vars

\* A Focus whose duration had been extended beyond its Settings value
\* (1) ended by expiry, and the ShortBreak entered has no override.
C10_Witness ==
    /\ op = "increase_progress"
    /\ arg = 2
    /\ changed
    /\ settings.start_automatically
    /\ settings.focus_duration = 1
    /\ focus_expiries = 1
    /\ completed_focus_sessions = 1
    /\ activity = "ShortBreak"
    /\ progress = 0
    /\ current_activity_duration_override = None

\* ------------------------------------------------------------ C11

\* C11: from any reachable state, reset produces the state State::new
\* produces for the same Settings: Focus, progress 0, no completed
\* sessions, no override, timer_is_active = start_automatically, and the
\* Settings unchanged.
C11_ResetIsNew ==
    [][op' = "reset"
        => /\ activity' = "Focus"
           /\ progress' = 0
           /\ completed_focus_sessions' = 0
           /\ current_activity_duration_override' = None
           /\ timer_is_active' = settings.start_automatically
           /\ settings' = settings
           /\ ~panicked']_vars

\* reset was applied to a state that differed from the fresh one.
C11_Witness ==
    /\ op = "reset"
    /\ changed
    /\ activity = "Focus"
    /\ progress = 0
    /\ completed_focus_sessions = 0
    /\ current_activity_duration_override = None
    /\ timer_is_active = settings.start_automatically

\* ------------------------------------------------------------ C12

\* C12: in every reachable state no operation has panicked,
\* time_remaining() does not underflow, and progress_percentage() divides
\* by a non-zero duration and lies in [0, 1].
C12_NoFailure ==
    /\ ~panicked
    /\ ~time_remaining_panics(Cur)
    /\ progress_percentage(Cur).kind = "ratio"
    /\ 0 <= progress_percentage(Cur).num
    /\ progress_percentage(Cur).num <= progress_percentage(Cur).den

\* ============================================================ the connection layer
\* Model of `Server` (src/src/net/server.rs).  A peer is its socket address;
\* the stream stored under an address is described by `link` and `inbox`.

Peers == 1..MaxPeers

\* The Server struct as a record (local_addr never changes and is left out).
Srv ==
    [connections_rx |-> connections_rx,
     connected_clients |-> connected_clients]

\* Server::bind returns a Server with an empty channel and an empty map.
Server_bind ==
    [connections_rx |-> <<>>,
     connected_clients |-> {}]

Range(q) == {q[i] : i \in 1..Len(q)}

\* A drain that takes one connection at most (`if let` for `while let`).
accept_queued_one(self) ==
    IF self.connections_rx = <<>> THEN self
    ELSE [self EXCEPT !.connected_clients = @ \cup {Head(self.connections_rx)},
                      !.connections_rx = Tail(@)]

\* accept_queued: while try_recv() yields a connection, insert it.
accept_queued(self) ==
    [self EXCEPT !.connected_clients = @ \cup Range(self.connections_rx),
                 !.connections_rx = <<>>]

\* A receive that would take the connection from the queue and lose it.
accept_one_loses(self) ==
    [self EXCEPT !.connections_rx = Tail(@)]

\* accept_one: recv().await yields the oldest queued connection; insert it.
accept_one(self) ==
    [self EXCEPT !.connected_clients = @ \cup {Head(self.connections_rx)},
                 !.connections_rx = Tail(@)]

disconnect_client(self, addr) ==
    [self EXCEPT !.connected_clients = @ \ {addr}]

\* A disconnect_all that leaves the map as it is.
disconnect_all_nothing(self) == self

disconnect_all(self) ==
    [self EXCEPT !.connected_clients = {}]

clients(self) == self.connected_clients

\* An `errors` vector that keeps only the first failed send.
collect_errors_first(F) ==
    IF F = {} THEN <<>>
    ELSE <<CHOOSE a \in F : \A b \in F : a <= b>>

\* The `errors` vector of broadcast_frame: one entry per failed send, in the
\* order the map is iterated (unspecified by HashMap; a fixed order here).
RECURSIVE collect_errors(_)
collect_errors(F) ==
    IF F = {} THEN <<>>
    ELSE LET addr == CHOOSE a \in F : \A b \in F : a <= b
         IN  <<addr>> \o collect_errors(F \ {addr})

\* for (addr, _) in &errors { self.disconnect_client(*addr) }
RECURSIVE disconnect_each(_, _)
disconnect_each(self, errors) ==
    IF errors = <<>> THEN self
    ELSE disconnect_each(disconnect_client(self, Head(errors)), Tail(errors))

\* broadcast_frame without the eviction loop.
broadcast_frame_no_evict(self, F) ==
    LET s1 == accept_queued(self)
        errors == collect_errors(s1.connected_clients \cap F)
    IN  [server |-> s1,
         written |-> s1.connected_clients \ F,
         result |-> IF errors = <<>>
                    THEN [kind |-> "Ok", errors |-> <<>>]
                    ELSE [kind |-> "Broadcast", errors |-> errors]]

\* broadcast_frame, where F is the set of addresses whose send returns Err.
\* Returns the Server afterwards, the peers the frame was written to, and
\* the Result.
broadcast_frame(self, F) ==
    LET s1 == accept_queued(self)
        errors == collect_errors(s1.connected_clients \cap F)
    IN  [server |-> disconnect_each(s1, errors),
         written |-> s1.connected_clients \ F,
         result |-> IF errors = <<>>
                    THEN [kind |-> "Ok", errors |-> <<>>]
                    ELSE [kind |-> "Broadcast", errors |-> errors]]

\* What polling stream.next() can yield on a stream with `pending` unread
\* frames over a connection in state `conn`: a frame, an error, the end of
\* the stream, or nothing yet.
stream_next_never_pending(pending, conn) ==
    IF pending > 0 THEN {"Frame"} ELSE {"Err", "None"}

stream_next(pending, conn) ==
    IF pending > 0 THEN {"Frame"}
    ELSE IF conn = "down" THEN {"Err", "None"}
    ELSE {"Pending"}

\* A stream dropped from the map closes its connection.
Dropped(removed) ==
    /\ link' = [p \in Peers |-> IF p \in removed THEN "none" ELSE link[p]]
    /\ inbox' = [p \in Peers |-> IF p \in removed THEN 0 ELSE inbox[p]]

SetServer(s2) ==
    /\ connections_rx' = s2.connections_rx
    /\ connected_clients' = s2.connected_clients

\* A step of the connection layer alone: the timer and the run loop stay.
TimerUntouched ==
    /\ UNCHANGED <<activity, progress, completed_focus_sessions,
                   timer_is_active, settings,
                   current_activity_duration_override, panicked,
                   op, arg, changed, focus_expiries, focus_skips>>
    /\ UNCHANGED host_vars
    /\ UNCHANGED clock_vars
    /\ UNCHANGED wire_vars
    /\ UNCHANGED aux_vars
    /\ UNCHANGED client_vars

\* A step of the environment (the accept loop, a peer): no Server call
\* returns in it, and the history of the last call is cleared.
NoCall(name) ==
    /\ srv_op' = name
    /\ srv_peer' = 0
    /\ written' = {}
    /\ failed' = {}
    /\ drained' = {}
    /\ srv_result' = [kind |-> "None", errors |-> <<>>]

\* An accept loop that would put the accepted connection into the map itself.
ListenStep_inserts(p) ==
    /\ link[p] = "none"
    /\ Len(connections_rx) < ChannelCapacity
    /\ connected_clients' = connected_clients \cup {p}
    /\ link' = [link EXCEPT ![p] = "up"]
    /\ observed_failed' = observed_failed \ {p}
    /\ NoCall("listen")
    /\ UNCHANGED <<connections_rx, inbox>>

\* listen: one iteration of the accept loop; the accepted connection is
\* sent on the channel, which has room for it.
ListenStep(p) ==
    /\ link[p] = "none"
    /\ Len(connections_rx) < ChannelCapacity
    /\ connections_rx' = Append(connections_rx, p)
    /\ link' = [link EXCEPT ![p] = "up"]
    /\ observed_failed' = observed_failed \ {p}
    /\ NoCall("listen")
    /\ UNCHANGED <<connected_clients, inbox>>

Listen(p) ==
    /\ ListenStep(p)
    /\ TimerUntouched

\* The peer at p sends a frame.
PeerSendStep(p) ==
    /\ link[p] = "up"
    /\ inbox[p] < MaxInbox
    /\ inbox' = [inbox EXCEPT ![p] = @ + 1]
    /\ NoCall("peer")
    /\ UNCHANGED <<connections_rx, connected_clients, link, observed_failed>>

PeerSend(p) ==
    /\ PeerSendStep(p)
    /\ TimerUntouched

\* The connection to p goes down (closed or reset by the peer): reads yield
\* the frames already sent and then the end of the stream or an error;
\* writes may fail.
PeerDropStep(p) ==
    /\ link[p] = "up"
    /\ link' = [link EXCEPT ![p] = "down"]
    /\ NoCall("peer")
    /\ UNCHANGED <<connections_rx, connected_clients, inbox, observed_failed>>

PeerDrop(p) ==
    /\ PeerDropStep(p)
    /\ TimerUntouched

\* The peers a broadcast_frame step sends to: those in the map and those
\* still queued when it begins.
Recipients == connected_clients \cup Range(connections_rx)

\* A send can fail only on a connection that is down.
MayFail == {p \in Recipients : link[p] = "down"}

\* Server::broadcast_frame, the sends to the peers in F failing.
BroadcastFrameStep(F) ==
    LET r == broadcast_frame(Srv, F)
        removed == Recipients \ r.server.connected_clients
    IN  /\ SetServer(r.server)
        /\ written' = r.written
        /\ failed' = F
        /\ drained' = Range(connections_rx)
        /\ srv_result' = r.result
        /\ observed_failed' = (observed_failed \cup F) \ removed
        /\ Dropped(removed)
        /\ srv_op' = "broadcast_frame"
        /\ srv_peer' = 0

BroadcastFrame ==
    \E F \in SUBSET MayFail :
        /\ BroadcastFrameStep(F)
        /\ TimerUntouched

\* recv_frame, waiting: a queued connection arrives (accept_one when the map
\* is empty, the second select! branch otherwise); the wait goes on.
RecvAcceptStep ==
    /\ connections_rx # <<>>
    /\ SetServer(accept_one(Srv))
    /\ srv_result' = [kind |-> "Pending", errors |-> <<>>]
    /\ srv_op' = "recv_frame"
    /\ srv_peer' = 0
    /\ written' = {}
    /\ failed' = {}
    /\ drained' = {Head(connections_rx)}
    /\ UNCHANGED <<link, inbox, observed_failed>>

RecvAccept ==
    /\ RecvAcceptStep
    /\ TimerUntouched

\* recv_frame returns the frame that p's stream yields.
RecvFrameStep(p) ==
    /\ p \in connected_clients
    /\ "Frame" \in stream_next(inbox[p], link[p])
    /\ inbox' = [inbox EXCEPT ![p] = @ - 1]
    /\ srv_result' = [kind |-> "Frame", errors |-> <<>>]
    /\ srv_op' = "recv_frame"
    /\ srv_peer' = p
    /\ written' = {}
    /\ failed' = {}
    /\ drained' = {}
    /\ UNCHANGED <<connections_rx, connected_clients, link, observed_failed>>

RecvFrame(p) ==
    /\ RecvFrameStep(p)
    /\ TimerUntouched

\* recv_frame: p's stream yields Some(Err(e)); `?` returns ReadFrame(e).
RecvErrorStep(p) ==
    /\ p \in connected_clients
    /\ "Err" \in stream_next(inbox[p], link[p])
    /\ srv_result' = [kind |-> "ReadFrame", errors |-> <<>>]
    /\ observed_failed' = observed_failed \cup {p}
    /\ srv_op' = "recv_frame"
    /\ srv_peer' = p
    /\ written' = {}
    /\ failed' = {}
    /\ drained' = {}
    /\ UNCHANGED <<connections_rx, connected_clients, link, inbox>>

RecvError(p) ==
    /\ RecvErrorStep(p)
    /\ TimerUntouched

\* recv_frame: p's stream yields None (it has ended); the `if let` does not
\* match and the loop goes round again.
RecvEndStep(p) ==
    /\ p \in connected_clients
    /\ "None" \in stream_next(inbox[p], link[p])
    /\ srv_result' = [kind |-> "Pending", errors |-> <<>>]
    /\ observed_failed' = observed_failed \cup {p}
    /\ srv_op' = "recv_frame"
    /\ srv_peer' = p
    /\ written' = {}
    /\ failed' = {}
    /\ drained' = {}
    /\ UNCHANGED <<connections_rx, connected_clients, link, inbox>>

RecvEnd(p) ==
    /\ RecvEndStep(p)
    /\ TimerUntouched

\* Server::disconnect_all.
DisconnectAllStep ==
    /\ SetServer(disconnect_all(Srv))
    /\ Dropped(connected_clients)
    /\ observed_failed' = observed_failed \ connected_clients
    /\ srv_result' = [kind |-> "Ok", errors |-> <<>>]
    /\ srv_op' = "disconnect_all"
    /\ srv_peer' = 0
    /\ written' = {}
    /\ failed' = {}
    /\ drained' = {}

DisconnectAll ==
    /\ DisconnectAllStep
    /\ TimerUntouched

\* The Server right after bind().
ServerBound ==
    /\ connections_rx = Server_bind.connections_rx
    /\ connected_clients = Server_bind.connected_clients
    /\ link = [p \in Peers |-> "none"]
    /\ inbox = [p \in Peers |-> 0]
    /\ srv_op = "bind"
    /\ srv_peer = 0
    /\ written = {}
    /\ failed = {}
    /\ drained = {}
    /\ srv_result = [kind |-> "Ok", errors |-> <<>>]
    /\ observed_failed = {}

\* A fresh State with the Settings `s`, no operation applied.
TimerFresh(s) ==
    /\ activity = State_new(s).activity
    /\ progress = State_new(s).progress
    /\ completed_focus_sessions = State_new(s).completed_focus_sessions
    /\ timer_is_active = State_new(s).timer_is_active
    /\ settings = State_new(s).settings
    /\ current_activity_duration_override =
           State_new(s).current_activity_duration_override
    /\ panicked = State_new(s).panicked
    /\ op = "new"
    /\ arg = 0
    /\ changed = FALSE
    /\ focus_expiries = 0
    /\ focus_skips = 0

ServerInit ==
    /\ TimerFresh([focus_duration |-> MaxSetting,
                   short_break_duration |-> MaxSetting,
                   long_break_duration |-> MaxSetting,
                   start_automatically |-> FALSE])
    /\ ServerBound
    /\ pc = "offline"
    /\ branch = "none"
    /\ clock_reset = FALSE
    /\ inbound = NoEvent
    /\ ClockIdle
    /\ AuxIdle
    /\ WireIdle
    /\ ClientIdle

ServerNext ==
    \/ \E p \in Peers : Listen(p)
    \/ \E p \in Peers : PeerSend(p)
    \/ \E p \in Peers : PeerDrop(p)
    \/ BroadcastFrame
    \/ RecvAccept
    \/ \E p \in Peers : RecvFrame(p)
    \/ \E p \in Peers : RecvError(p)
    \/ \E p \in Peers : RecvEnd(p)
    \/ DisconnectAll

SpecServer == ServerInit /\ [][ServerNext]_vars

\* ============================================================ the host run loop
\* Model of App::run_inner and App::handle_event (src/src/app.rs), hosting
\* a Server.

\* The run loop is explored with smaller inputs than the timer and the
\* Server are on their own: fewer peers, shorter elapsed times and deltas,
\* fewer completed sessions.
HostPeers == 1..(MaxPeers - 2)
HostElapsed == 0..(MaxElapsed - 1)
HostDelta == 1..(MaxDelta - 1)
HostSessions == MaxSessions - 4

\* protocol::Event: the commands of the keyboard and of remote peers.
Event ==
    [cmd : {"Quit", "ToggleTimer", "ResetTimer", "SkipActivity"}, d : {0}]
    \cup [cmd : {"ExtendActivity", "ReduceActivity"}, d : HostDelta]

\* What a received frame decodes to: an Event message, a message of another
\* kind, or nothing (the frame does not decode).
Inbound ==
    [kind : {"Event"}, event : Event]
    \cup [kind : {"Display", "Notify", "Undecodable"},
          event : {[cmd |-> "Quit", d |-> 0]}]

\* A handle_event that would never reset the tick reference.
handle_event_no_reset(self, event) ==
    [state |-> CASE event.cmd = "ToggleTimer" -> toggle_timer(self)
                 [] event.cmd = "ExtendActivity" ->
                        extend_activity(self, event.d)
                 [] event.cmd = "ReduceActivity" ->
                        reduce_activity(self, event.d)
                 [] event.cmd = "SkipActivity" -> skip_activity(self)
                 [] event.cmd = "ResetTimer" -> reset(self)
                 [] event.cmd = "Quit" -> self,
     quit |-> event.cmd = "Quit",
     reset |-> FALSE]

\* handle_event: the State afterwards, the AppShouldQuit it returns, and
\* whether it reset pomodoro_clock and pomodoro_start_time.
handle_event(self, event) ==
    LET timer_was_stopped == ~self.timer_is_active
        handled ==
            CASE event.cmd = "ToggleTimer" -> toggle_timer(self)
              [] event.cmd = "ExtendActivity" -> extend_activity(self, event.d)
              [] event.cmd = "ReduceActivity" -> reduce_activity(self, event.d)
              [] event.cmd = "SkipActivity" -> skip_activity(self)
              [] event.cmd = "ResetTimer" -> reset(self)
              [] event.cmd = "Quit" -> self
        timer_is_active_now == handled.timer_is_active
    IN  IF event.cmd = "Quit"
        THEN [state |-> self, quit |-> TRUE, reset |-> FALSE]
        ELSE [state |-> handled, quit |-> FALSE,
              reset |-> /\ ~handled.panicked
                        /\ timer_was_stopped
                        /\ timer_is_active_now]

\* The fields of the State after a step of the run loop; the histories of
\* the timer operations are not kept in the run loop.
SetState(s2) ==
    /\ activity' = s2.activity
    /\ progress' = s2.progress
    /\ completed_focus_sessions' = s2.completed_focus_sessions
    /\ timer_is_active' = s2.timer_is_active
    /\ settings' = s2.settings
    /\ current_activity_duration_override' = s2.current_activity_duration_override
    /\ panicked' = s2.panicked
    /\ UNCHANGED <<op, arg, changed, focus_expiries, focus_skips>>

SetTimer(s2) ==
    /\ SetState(s2)
    /\ UNCHANGED clock_vars
    /\ UNCHANGED wire_vars
    /\ UNCHANGED aux_vars
    /\ UNCHANGED client_vars

\* `server.broadcast(..).await?`: Ok goes on; whether a broadcast in which
\* writes failed is an Err for `?` is decided by the Server type the loop is
\* built with, so both outcomes are kept.
AfterBroadcast(result, cont) ==
    IF result.kind = "Ok" THEN {cont} ELSE {cont, "failed"}

Running == pc \in {"render", "select"} /\ ~panicked

\* Top of the loop: the TimerVisuals are computed (time_remaining
\* included), rendered, and broadcast as a Display message.
HostRender ==
    /\ pc = "render" /\ ~panicked
    /\ IF time_remaining_panics(Cur)
       THEN /\ SetTimer([Cur EXCEPT !.panicked = TRUE])
            /\ UNCHANGED <<connections_rx, connected_clients, link, inbox,
                           observed_failed>>
            /\ NoCall("render")
            /\ pc' = pc
       ELSE /\ SetTimer(Cur)
            /\ \E F \in SUBSET MayFail :
                  /\ BroadcastFrameStep(F)
                  /\ pc' \in AfterBroadcast(broadcast_frame(Srv, F).result,
                                            "select")
    /\ branch' = "none"
    /\ clock_reset' = FALSE
    /\ inbound' = NoEvent

\* tui.render or tui.read_event returns a TuiError: `?` ends run_inner.
HostTuiError ==
    /\ Running
    /\ pc' = "failed"
    /\ branch' = IF pc = "select" THEN "tui" ELSE "none"
    /\ clock_reset' = FALSE
    /\ inbound' = NoEvent
    /\ SetTimer(Cur)
    /\ UNCHANGED <<connections_rx, connected_clients, link, inbox,
                   observed_failed>>
    /\ NoCall("tui_error")

\* A tick branch whose completion would discard the frames that the
\* cancelled recv_frame had ready.
HostTick_cancels(elapsed) ==
    /\ pc = "select" /\ ~panicked
    /\ completed_focus_sessions <= HostSessions
    /\ branch' = "tick"
    /\ clock_reset' = FALSE
    /\ inbound' = NoEvent
    /\ LET s2 == IF timer_is_active THEN increase_progress(Cur, elapsed)
                 ELSE Cur
       IN  /\ SetTimer(s2)
           /\ inbox' = [p \in Peers |-> 0]
           /\ UNCHANGED <<connections_rx, connected_clients, link,
                          observed_failed>>
           /\ NoCall("tick")
           /\ pc' = "render"

\* The tick branch: if the timer is active, progress grows by the time
\* elapsed, and a change of activity is broadcast as a Notify message.
HostTick(elapsed) ==
    /\ pc = "select" /\ ~panicked
    /\ completed_focus_sessions <= HostSessions
    /\ branch' = "tick"
    /\ clock_reset' = FALSE
    /\ inbound' = NoEvent
    /\ LET s2 == IF timer_is_active THEN increase_progress(Cur, elapsed)
                 ELSE Cur
       IN  /\ SetTimer(s2)
           /\ IF ~s2.panicked /\ s2.activity # activity
              THEN \E F \in SUBSET MayFail :
                      /\ BroadcastFrameStep(F)
                      /\ pc' \in AfterBroadcast(
                                    broadcast_frame(Srv, F).result, "render")
              ELSE /\ UNCHANGED <<connections_rx, connected_clients, link,
                                  inbox, observed_failed>>
                   /\ NoCall("tick")
                   /\ pc' = "render"

\* The tui branch: a local input event is handled; Quit leaves the loop,
\* and the code after the loop disconnects every peer.
HostTuiEvent(event) ==
    /\ pc = "select" /\ ~panicked
    /\ completed_focus_sessions <= HostSessions
    /\ branch' = "tui"
    /\ LET r == handle_event(Cur, event)
       IN  /\ SetTimer(r.state)
           /\ clock_reset' = r.reset
           /\ inbound' = event
           /\ IF r.quit
              THEN /\ DisconnectAllStep
                   /\ pc' = "exited"
              ELSE /\ UNCHANGED <<connections_rx, connected_clients, link,
                                  inbox, observed_failed>>
                   /\ NoCall("tui_event")
                   /\ pc' = "render"

\* The server branch, still waiting: a queued connection is taken in.
HostRecvAccept ==
    /\ pc = "select" /\ ~panicked
    /\ RecvAcceptStep
    /\ SetTimer(Cur)
    /\ UNCHANGED host_vars

\* The server branch, still waiting: a stream has ended.
HostRecvEnd(p) ==
    /\ pc = "select" /\ ~panicked
    /\ RecvEndStep(p)
    /\ SetTimer(Cur)
    /\ UNCHANGED host_vars

\* The server branch completes with an error, which is ignored.
HostRecvError(p) ==
    /\ pc = "select" /\ ~panicked
    /\ RecvErrorStep(p)
    /\ SetTimer(Cur)
    /\ pc' = "render"
    /\ branch' = "server"
    /\ clock_reset' = FALSE
    /\ inbound' = NoEvent

\* A server branch that would not leave the loop on a Quit from a peer.
HostRecvFrame_ignores_quit(p, msg) ==
    /\ pc = "select" /\ ~panicked
    /\ completed_focus_sessions <= HostSessions
    /\ branch' = "server"
    /\ LET r == IF msg.kind = "Event" THEN handle_event(Cur, msg.event)
                ELSE [state |-> Cur, quit |-> FALSE, reset |-> FALSE]
       IN  /\ SetTimer(r.state)
           /\ clock_reset' = r.reset
           /\ inbound' = IF msg.kind = "Event" THEN msg.event
                         ELSE IgnoredMessage
           /\ RecvFrameStep(p)
           /\ pc' = "render"

\* A server branch that would handle whatever a frame carries as an event.
HostRecvFrame_handles_all(p, msg) ==
    /\ pc = "select" /\ ~panicked
    /\ completed_focus_sessions <= HostSessions
    /\ branch' = "server"
    /\ LET r == handle_event(Cur, msg.event)
       IN  /\ SetTimer(r.state)
           /\ clock_reset' = r.reset
           /\ inbound' = IF msg.kind = "Event" THEN msg.event
                         ELSE IgnoredMessage
           /\ IF r.quit
              THEN /\ p \in connected_clients
                   /\ "Frame" \in stream_next(inbox[p], link[p])
                   /\ DisconnectAllStep
                   /\ pc' = "exited"
              ELSE /\ RecvFrameStep(p)
                   /\ pc' = "render"

\* The server branch completes with a frame: an Event message is handled as
\* a local event is, anything else is ignored.
HostRecvFrame(p, msg) ==
    /\ pc = "select" /\ ~panicked
    /\ completed_focus_sessions <= HostSessions
    /\ branch' = "server"
    /\ LET r == IF msg.kind = "Event" THEN handle_event(Cur, msg.event)
                ELSE [state |-> Cur, quit |-> FALSE, reset |-> FALSE]
       IN  /\ SetTimer(r.state)
           /\ clock_reset' = r.reset
           /\ inbound' = IF msg.kind = "Event" THEN msg.event
                         ELSE IgnoredMessage
           /\ IF r.quit
              THEN /\ p \in connected_clients
                   /\ "Frame" \in stream_next(inbox[p], link[p])
                   /\ DisconnectAllStep
                   /\ pc' = "exited"
              ELSE /\ RecvFrameStep(p)
                   /\ pc' = "render"

HostInit ==
    /\ \E auto \in BOOLEAN :
          TimerFresh([focus_duration |-> MaxSetting,
                      short_break_duration |-> MaxSetting,
                      long_break_duration |-> MaxSetting,
                      start_automatically |-> auto])
    /\ ServerBound
    /\ pc = "render"
    /\ branch = "none"
    /\ clock_reset = FALSE
    /\ inbound = NoEvent
    /\ ClockIdle
    /\ AuxIdle
    /\ WireIdle
    /\ ClientIdle

\* The run loop sees what the accept loop and the peers have done only at
\* an await. From the end of a select! handler to the Display broadcast
\* there is none, so a step of theirs in between is taken as made before
\* the handler or after the broadcast; after run_inner has returned there
\* is no Server for them to act on.
AtAwait == pc = "select" /\ ~panicked

HostNext ==
    \/ HostRender
    \/ HostTuiError
    \/ \E elapsed \in HostElapsed : HostTick(elapsed)
    \/ \E event \in Event : HostTuiEvent(event)
    \/ HostRecvAccept
    \/ \E p \in HostPeers : HostRecvEnd(p)
    \/ \E p \in HostPeers : HostRecvError(p)
    \/ \E p \in HostPeers, msg \in Inbound : HostRecvFrame(p, msg)
    \/ \E p \in HostPeers : AtAwait /\ Listen(p)
    \/ \E p \in HostPeers : AtAwait /\ PeerSend(p)
    \/ \E p \in HostPeers : AtAwait /\ PeerDrop(p)

SpecHost == HostInit /\ [][HostNext]_vars

\* ------------------------------------------------------------------
\* The run loop and the passing of time: App::run_inner with no server,
\* following pomodoro_start_time
\* ------------------------------------------------------------------

\* A step of the run loop with no server: the State and the position in the
\* loop change, nothing else.
ClockStep(s2, branch2, pc2) ==
    /\ SetState(s2)
    /\ pc' = pc2
    /\ branch' = branch2
    /\ inbound' = NoEvent
    /\ UNCHANGED net_vars
    /\ UNCHANGED wire_vars
    /\ UNCHANGED aux_vars
    /\ UNCHANGED client_vars

\* Time passes, wherever the loop stands.
ClockPass ==
    /\ Running
    /\ since_ref < MaxElapsed
    /\ since_ref' = since_ref + 1
    /\ idle_in_ref' = IF timer_is_active THEN idle_in_ref ELSE idle_in_ref + 1
    /\ UNCHANGED <<idle_dropped, clock_reset>>
    /\ SetState(Cur)
    /\ UNCHANGED <<pc, branch, inbound>>
    /\ UNCHANGED net_vars
    /\ UNCHANGED wire_vars
    /\ UNCHANGED aux_vars
    /\ UNCHANGED client_vars

\* The head of the loop: the State is converted to TimerVisuals and rendered.
ClockRender ==
    /\ pc = "render" /\ ~panicked
    /\ ClockStep([Cur EXCEPT !.panicked = time_remaining_panics(Cur)],
                 "none", IF time_remaining_panics(Cur) THEN pc ELSE "select")
    /\ clock_reset' = FALSE
    /\ UNCHANGED clock_vars

\* The tick branch: if the timer is active, progress grows by
\* pomodoro_start_time.elapsed() and the reference becomes now.
ClockTick ==
    /\ pc = "select" /\ ~panicked
    /\ completed_focus_sessions <= HostSessions
    /\ clock_reset' = FALSE
    /\ IF timer_is_active
       THEN /\ ClockStep(increase_progress(Cur, since_ref), "tick", "render")
            /\ since_ref' = 0
            /\ idle_in_ref' = 0
            /\ UNCHANGED idle_dropped
       ELSE /\ ClockStep(Cur, "tick", "render")
            /\ UNCHANGED clock_vars

\* The input branch: handle_event, which resets the reference when the
\* event has started a timer that was stopped.
ClockTuiEvent(event) ==
    /\ pc = "select" /\ ~panicked
    /\ completed_focus_sessions <= HostSessions
    /\ LET r == handle_event(Cur, event)
       IN  /\ ClockStep(r.state, "tui", IF r.quit THEN "exited" ELSE "render")
           /\ clock_reset' = r.reset
           /\ IF r.reset
              THEN /\ since_ref' = 0
                   /\ idle_in_ref' = 0
                   /\ idle_dropped' = idle_in_ref
              ELSE UNCHANGED clock_vars

\* tui.render or tui.read_event returns a TuiError: `?` ends run_inner.
ClockTuiError ==
    /\ Running
    /\ ClockStep(Cur, IF pc = "select" THEN "tui" ELSE "none", "failed")
    /\ clock_reset' = FALSE
    /\ UNCHANGED clock_vars

ClockInit ==
    /\ \E auto \in BOOLEAN :
          TimerFresh([focus_duration |-> MaxSetting,
                      short_break_duration |-> MaxSetting,
                      long_break_duration |-> MaxSetting,
                      start_automatically |-> auto])
    /\ NetIdle
    /\ pc = "render"
    /\ branch = "none"
    /\ clock_reset = FALSE
    /\ inbound = NoEvent
    /\ ClockIdle
    /\ AuxIdle
    /\ WireIdle
    /\ ClientIdle

ClockNext ==
    \/ ClockPass
    \/ ClockRender
    \/ ClockTick
    \/ \E event \in Event : ClockTuiEvent(event)
    \/ ClockTuiError

SpecClock == ClockInit /\ [][ClockNext]_vars


\* ============================================================ the wire protocol
\* Model of the messages and of their bincode encoding (src/src/protocol.rs,
\* src/src/net/protocol.rs): bincode::serialize / bincode::deserialize with
\* the default options, i.e. little-endian fixed-width integers, a u32
\* variant index in front of an enum's payload, trailing bytes allowed.
\* A frame is a sequence of bytes (0..255).

\* f64 values, as their bit patterns in little-endian bytes: 0.0, 0.5, 1.0,
\* +infinity, and the NaNs that 0.0 / 0.0 gives (the sign bit depends on
\* the target).
F64Samples ==
    { <<0, 0, 0, 0, 0, 0, 0, 0>>,
      <<0, 0, 0, 0, 0, 0, 224, 63>>,
      <<0, 0, 0, 0, 0, 0, 240, 63>>,
      <<0, 0, 0, 0, 0, 0, 240, 127>>,
      <<0, 0, 0, 0, 0, 0, 248, 127>>,
      <<0, 0, 0, 0, 0, 0, 248, 255>> }

\* protocol::TimerVisuals.
TimerVisuals ==
    [time_remaining : {0, DurationMax},
     timer_is_paused : BOOLEAN,
     activity : Activity,
     progress_percentage : F64Samples,
     completed_focus_sessions : {0, MaxSessions}]

\* The three message enums and the variants of each, in declaration order.
Families == {"NetworkProtocol", "ClientMessage", "ServerMessage"}

Variants(family) ==
    CASE family = "NetworkProtocol" -> <<"Event", "Display", "Notify">>
      [] family = "ClientMessage" -> <<"Event">>
      [] family = "ServerMessage" -> <<"Display", "Notify">>

\* The messages of a family.
Messages(family) ==
    {m \in [kind : {"Event"}, event : Event]
           \cup [kind : {"Display"}, visuals : TimerVisuals]
           \cup [kind : {"Notify"}, activity : Activity] :
        \E i \in 1..Len(Variants(family)) : Variants(family)[i] = m.kind}

\* ---- serialize

\* An unsigned integer in `width` little-endian bytes.
RECURSIVE le_bytes(_, _)
le_bytes(n, width) ==
    IF width = 0 THEN <<>>
    ELSE <<n % 256>> \o le_bytes(n \div 256, width - 1)

\* The index of a variant in its enum (serde's variant_index).
variant_index(names, name) ==
    CHOOSE i \in 1..Len(names) : names[i] = name

EventNames ==
    <<"Quit", "ToggleTimer", "ResetTimer", "SkipActivity", "ExtendActivity",
      "ReduceActivity">>

ActivityNames == <<"Focus", "ShortBreak", "LongBreak">>

\* std::time::Duration: secs as u64, then nanos as u32 (whole seconds here).
ser_duration(d) == le_bytes(d, 8) \o le_bytes(0, 4)

ser_activity(a) == le_bytes(variant_index(ActivityNames, a) - 1, 4)

ser_event(e) ==
    le_bytes(variant_index(EventNames, e.cmd) - 1, 4)
        \o (IF e.cmd \in {"ExtendActivity", "ReduceActivity"}
            THEN ser_duration(e.d) ELSE <<>>)

ser_visuals(v) ==
    ser_duration(v.time_remaining)
        \o <<IF v.timer_is_paused THEN 1 ELSE 0>>
        \o ser_activity(v.activity)
        \o v.progress_percentage
        \o le_bytes(v.completed_focus_sessions, 4)

\* bincode::serialize(&msg) for a message of the family.
serialize(family, m) ==
    le_bytes(variant_index(Variants(family), m.kind) - 1, 4)
        \o (CASE m.kind = "Event" -> ser_event(m.event)
              [] m.kind = "Display" -> ser_visuals(m.visuals)
              [] m.kind = "Notify" -> ser_activity(m.activity))

\* ---- deserialize
\* A reader takes the bytes left and returns ok, the value and the rest, or
\* a failure.

ReadFailed == [ok |-> FALSE, val |-> <<>>, rest |-> <<>>]

\* The number in little-endian bytes; a number of more than three
\* significant bytes is read as 16777216, which stands for "too large"
\* (no modelled value comes near it).
RECURSIVE le_value(_)
le_value(bytes) ==
    IF bytes = <<>> THEN 0
    ELSE LET hi == le_value(Tail(bytes))
         IN  IF hi >= 65536 THEN 16777216 ELSE Head(bytes) + 256 * hi

\* A reader that takes missing bytes for zeros.
read_uint_zero_padded(bytes, width) ==
    IF Len(bytes) < width
    THEN [ok |-> TRUE, val |-> le_value(bytes), rest |-> <<>>]
    ELSE [ok |-> TRUE,
          val |-> le_value(SubSeq(bytes, 1, width)),
          rest |-> SubSeq(bytes, width + 1, Len(bytes))]

\* Reading a fixed-width unsigned integer fails at the end of the input.
read_uint(bytes, width) ==
    IF Len(bytes) < width THEN ReadFailed
    ELSE [ok |-> TRUE,
          val |-> le_value(SubSeq(bytes, 1, width)),
          rest |-> SubSeq(bytes, width + 1, Len(bytes))]

\* A bool is one byte, 0 or 1.
read_bool(bytes) ==
    LET b == read_uint(bytes, 1)
    IN  IF b.ok /\ b.val \in {0, 1}
        THEN [b EXCEPT !.val = (b.val = 1)]
        ELSE ReadFailed

\* An f64 is any eight bytes.
read_f64(bytes) ==
    IF Len(bytes) < 8 THEN ReadFailed
    ELSE [ok |-> TRUE,
          val |-> SubSeq(bytes, 1, 8),
          rest |-> SubSeq(bytes, 9, Len(bytes))]

\* A Duration of whole seconds is its number of seconds; any other keeps
\* both fields.
read_duration(bytes) ==
    LET secs == read_uint(bytes, 8)
        nanos == read_uint(secs.rest, 4)
    IN  IF ~secs.ok \/ ~nanos.ok THEN ReadFailed
        ELSE [ok |-> TRUE,
              val |-> IF nanos.val = 0 THEN secs.val
                      ELSE [secs |-> secs.val, nanos |-> nanos.val],
              rest |-> nanos.rest]

\* A variant index that names ResetTimer and SkipActivity the wrong way round.
variant_named_swapped(names, bytes) ==
    LET tag == read_uint(bytes, 4)
    IN  IF tag.ok /\ tag.val < Len(names)
        THEN [tag EXCEPT !.val = IF names[tag.val + 1] = "ResetTimer"
                                 THEN "SkipActivity"
                                 ELSE IF names[tag.val + 1] = "SkipActivity"
                                 THEN "ResetTimer"
                                 ELSE names[tag.val + 1]]
        ELSE ReadFailed

\* The variant a u32 index names; an index past the last variant fails.
variant_named(names, bytes) ==
    LET tag == read_uint(bytes, 4)
    IN  IF tag.ok /\ tag.val < Len(names)
        THEN [tag EXCEPT !.val = names[tag.val + 1]]
        ELSE ReadFailed

read_activity(bytes) == variant_named(ActivityNames, bytes)

read_event(bytes) ==
    LET cmd == variant_named(EventNames, bytes)
        d == read_duration(cmd.rest)
    IN  IF ~cmd.ok THEN ReadFailed
        ELSE IF cmd.val \in {"ExtendActivity", "ReduceActivity"}
        THEN IF d.ok
             THEN [ok |-> TRUE, val |-> [cmd |-> cmd.val, d |-> d.val],
                   rest |-> d.rest]
             ELSE ReadFailed
        ELSE [ok |-> TRUE, val |-> [cmd |-> cmd.val, d |-> 0],
              rest |-> cmd.rest]

read_visuals(bytes) ==
    LET remaining == read_duration(bytes)
        paused == read_bool(remaining.rest)
        act == read_activity(paused.rest)
        percentage == read_f64(act.rest)
        completed == read_uint(percentage.rest, 4)
    IN  IF /\ remaining.ok /\ paused.ok /\ act.ok /\ percentage.ok
           /\ completed.ok
        THEN [ok |-> TRUE,
              val |-> [time_remaining |-> remaining.val,
                       timer_is_paused |-> paused.val,
                       activity |-> act.val,
                       progress_percentage |-> percentage.val,
                       completed_focus_sessions |-> completed.val],
              rest |-> completed.rest]
        ELSE ReadFailed

\* bincode::deserialize(&bytes).map_err(Deserialize): Ok(message) or the
\* Deserialize error; bytes after the message are not looked at.
deserialize(family, bytes) ==
    LET kind == variant_named(Variants(family), bytes)
        event == read_event(kind.rest)
        visuals == read_visuals(kind.rest)
        act == read_activity(kind.rest)
    IN  IF ~kind.ok THEN [ok |-> FALSE, err |-> "Deserialize"]
        ELSE CASE kind.val = "Event" ->
                    IF event.ok
                    THEN [ok |-> TRUE,
                          msg |-> [kind |-> "Event", event |-> event.val]]
                    ELSE [ok |-> FALSE, err |-> "Deserialize"]
               [] kind.val = "Display" ->
                    IF visuals.ok
                    THEN [ok |-> TRUE,
                          msg |-> [kind |-> "Display", visuals |-> visuals.val]]
                    ELSE [ok |-> FALSE, err |-> "Deserialize"]
               [] kind.val = "Notify" ->
                    IF act.ok
                    THEN [ok |-> TRUE,
                          msg |-> [kind |-> "Notify", activity |-> act.val]]
                    ELSE [ok |-> FALSE, err |-> "Deserialize"]

\* ---- steps on the wire

WireOnly ==
    /\ UNCHANGED <<activity, progress, completed_focus_sessions,
                   timer_is_active, settings,
                   current_activity_duration_override, panicked,
                   op, arg, changed, focus_expiries, focus_skips>>
    /\ UNCHANGED net_vars
    /\ UNCHANGED host_vars
    /\ UNCHANGED clock_vars
    /\ UNCHANGED client_vars
    /\ UNCHANGED aux_vars

\* A sender serializes the message m.
WireSerialize(family, m) ==
    /\ wire_step = "idle"
    /\ wire_family' = family
    /\ wire_msg' = m
    /\ wire_frame' = serialize(family, m)
    /\ wire_damage' = "none"
    /\ wire_decoded' = <<>>
    /\ wire_step' = "serialize"
    /\ WireOnly

\* The frame arrives cut short, down to no bytes at all.
WireTruncate(n) ==
    /\ wire_step = "serialize"
    /\ n < Len(wire_frame)
    /\ wire_frame' = SubSeq(wire_frame, 1, n)
    /\ wire_damage' = IF n = 0 THEN "empty" ELSE "truncated"
    /\ wire_step' = "damage"
    /\ UNCHANGED <<wire_family, wire_msg, wire_decoded>>
    /\ WireOnly

\* The frame arrives with a variant index that names no variant: the index
\* of the message itself, or the index of the Event or Activity inside it.
WireRetag(inner, tag) ==
    /\ wire_step = "serialize"
    /\ inner => wire_msg.kind \in {"Event", "Notify"}
    /\ tag >= (IF ~inner THEN Len(Variants(wire_family))
               ELSE IF wire_msg.kind = "Event" THEN Len(EventNames)
               ELSE Len(ActivityNames))
    /\ wire_frame' =
          IF inner
          THEN SubSeq(wire_frame, 1, 4) \o le_bytes(tag, 4)
                   \o SubSeq(wire_frame, 9, Len(wire_frame))
          ELSE le_bytes(tag, 4) \o SubSeq(wire_frame, 5, Len(wire_frame))
    /\ wire_damage' = "unknown_tag"
    /\ wire_step' = "damage"
    /\ UNCHANGED <<wire_family, wire_msg, wire_decoded>>
    /\ WireOnly

\* The receiver deserializes the frame.
WireDeserialize ==
    /\ wire_step \in {"serialize", "damage"}
    /\ wire_decoded' = deserialize(wire_family, wire_frame)
    /\ wire_step' = "deserialize"
    /\ UNCHANGED <<wire_family, wire_msg, wire_frame, wire_damage>>
    /\ WireOnly

\* The host handles the Event it decoded (App::handle_event).
WireDeliver ==
    /\ wire_step = "deserialize"
    /\ wire_decoded.ok
    /\ wire_decoded.msg.kind = "Event"
    /\ SetState(handle_event(Cur, wire_decoded.msg.event).state)
    /\ wire_step' = "deliver"
    /\ UNCHANGED <<wire_family, wire_msg, wire_frame, wire_damage,
                   wire_decoded>>
    /\ UNCHANGED net_vars
    /\ UNCHANGED host_vars
    /\ UNCHANGED clock_vars
    /\ UNCHANGED client_vars
    /\ UNCHANGED aux_vars

\* Variant indices that name no variant of any enum of the protocol.
UnknownTags == {3, 6, 255, 65535}

WireInit ==
    /\ \E auto \in BOOLEAN :
          TimerFresh([focus_duration |-> MaxSetting,
                      short_break_duration |-> MaxSetting,
                      long_break_duration |-> MaxSetting,
                      start_automatically |-> auto])
    /\ NetIdle
    /\ pc = "offline"
    /\ branch = "none"
    /\ clock_reset = FALSE
    /\ inbound = NoEvent
    /\ ClockIdle
    /\ AuxIdle
    /\ WireIdle
    /\ ClientIdle

WireNext ==
    \/ \E family \in Families : \E m \in Messages(family) :
          WireSerialize(family, m)
    \/ \E n \in 0..Len(wire_frame) : WireTruncate(n)
    \/ \E inner \in BOOLEAN, tag \in UnknownTags : WireRetag(inner, tag)
    \/ WireDeserialize
    \/ WireDeliver

SpecWire == WireInit /\ [][WireNext]_vars

\* ------------------------------------------------------------------
\* The client: net/client.rs under ClientApp::run_inner (app.rs)
\* ------------------------------------------------------------------

\* The TimerVisuals a server sends in this model.
ClientVisuals ==
    {v \in TimerVisuals : /\ v.progress_percentage = <<0, 0, 0, 0, 0, 0, 0, 0>>
                          /\ v.completed_focus_sessions = 0}

\* The messages that arrive at a client; an Event is of the wrong direction.
ClientInbound ==
    [kind : {"Display"}, visuals : ClientVisuals]
        \cup [kind : {"Notify"}, activity : Activity]
        \cup [kind : {"Event"}, event : {[cmd |-> "ToggleTimer", d |-> 0]}]

\* Client::recv_frame: the outcomes of `stream.next().await`. Frames that
\* arrived before the close are yielded first; the end of the stream (None)
\* is Err(ServerDisconnect), an I/O fault is Err(ReadFrame); with nothing to
\* read on an open connection the call stays pending (no outcome).
Client_recv_frame(conn, pending) ==
    IF conn = "reset" THEN {[kind |-> "ReadFrame"]}
    ELSE IF pending # <<>> THEN {[kind |-> "Ok", frame |-> Head(pending)]}
    ELSE IF conn = "closed" THEN {[kind |-> "ServerDisconnect"]}
    ELSE {}

\* Client::send_frame: `stream.send(frame).await.map_err(SendFrame)`. Every
\* failure of the sink is Err(SendFrame); a write to a connection the server
\* has closed may still be taken by the socket.
Client_send_frame(conn) ==
    CASE conn = "up" -> {"Ok"}
      [] conn = "closed" -> {"Ok", "SendFrame"}
      [] conn = "reset" -> {"SendFrame"}

ClientOnly ==
    /\ UNCHANGED <<activity, progress, completed_focus_sessions,
                   timer_is_active, settings,
                   current_activity_duration_override, panicked,
                   op, arg, changed, focus_expiries, focus_skips>>
    /\ UNCHANGED net_vars
    /\ UNCHANGED host_vars
    /\ UNCHANGED clock_vars
    /\ UNCHANGED wire_vars
    /\ UNCHANGED aux_vars

ClientNoCall ==
    /\ client_op' = "none"
    /\ client_result' = "None"
    /\ client_out' = NoEvent

\* The server sends a message to the client.
ClientServerSends(m) ==
    /\ client_pc = "select"
    /\ client_conn = "up"
    /\ Len(client_inbox) < MaxInbox
    /\ client_inbox' = Append(client_inbox, m)
    /\ ClientNoCall
    /\ UNCHANGED <<client_conn, client_screen, client_pc>>
    /\ ClientOnly

\* The server closes the connection.
ClientServerCloses ==
    /\ client_pc = "select"
    /\ client_conn = "up"
    /\ client_conn' = "closed"
    /\ ClientNoCall
    /\ UNCHANGED <<client_inbox, client_screen, client_pc>>
    /\ ClientOnly

\* The connection breaks: what was in flight is lost.
ClientConnReset ==
    /\ client_pc = "select"
    /\ client_conn \in {"up", "closed"}
    /\ client_conn' = "reset"
    /\ client_inbox' = <<>>
    /\ ClientNoCall
    /\ UNCHANGED <<client_screen, client_pc>>
    /\ ClientOnly

\* The network branch of ClientApp::run_inner: a Display is rendered, a
\* Notify is shown, another message is ignored; the end of the stream and
\* an error both end run_inner with that error.
ClientRecv ==
    /\ client_pc = "select"
    /\ \E r \in Client_recv_frame(client_conn, client_inbox) :
          /\ client_op' = "recv_frame"
          /\ client_result' = r.kind
          /\ client_out' = NoEvent
          /\ IF r.kind = "Ok"
             THEN /\ client_inbox' = Tail(client_inbox)
                  /\ client_screen' = IF r.frame.kind = "Display"
                                      THEN <<r.frame.visuals>>
                                      ELSE client_screen
                  /\ client_pc' = "select"
             ELSE /\ client_pc' = "failed"
                  /\ UNCHANGED <<client_inbox, client_screen>>
    /\ UNCHANGED client_conn
    /\ ClientOnly

\* An input branch that would forward Quit to the server like any other
\* event before leaving the loop.
ClientTuiEvent_sends_quit(event) ==
    /\ client_pc = "select"
    /\ \E r \in Client_send_frame(client_conn) :
          /\ client_op' = "send_frame"
          /\ client_result' = r
          /\ client_out' = event
          /\ client_pc' = IF event.cmd = "Quit" THEN "exited"
                          ELSE IF r = "Ok" THEN "select" ELSE "failed"
    /\ UNCHANGED <<client_conn, client_inbox, client_screen>>
    /\ ClientOnly

\* The input branch of ClientApp::run_inner: Quit leaves the loop, any other
\* event is sent to the server, and a failed send ends run_inner with the
\* error of the send.
ClientTuiEvent(event) ==
    /\ client_pc = "select"
    /\ IF event.cmd = "Quit"
       THEN /\ client_op' = "quit"
            /\ client_result' = "None"
            /\ client_out' = NoEvent
            /\ client_pc' = "exited"
       ELSE \E r \in Client_send_frame(client_conn) :
               /\ client_op' = "send_frame"
               /\ client_result' = r
               /\ client_out' = event
               /\ client_pc' = IF r = "Ok" THEN "select" ELSE "failed"
    /\ UNCHANGED <<client_conn, client_inbox, client_screen>>
    /\ ClientOnly

\* tui.read_event or tui.render returns a TuiError: `?` ends run_inner.
ClientTuiError ==
    /\ client_pc = "select"
    /\ client_op' = "tui"
    /\ client_result' = "Tui"
    /\ client_out' = NoEvent
    /\ client_pc' = "failed"
    /\ UNCHANGED <<client_conn, client_inbox, client_screen>>
    /\ ClientOnly

ClientInit ==
    /\ TimerFresh([focus_duration |-> MaxSetting,
                   short_break_duration |-> MaxSetting,
                   long_break_duration |-> MaxSetting,
                   start_automatically |-> FALSE])
    /\ NetIdle
    /\ pc = "offline"
    /\ branch = "none"
    /\ clock_reset = FALSE
    /\ inbound = NoEvent
    /\ ClockIdle
    /\ AuxIdle
    /\ WireIdle
    /\ client_conn = "up"
    /\ client_inbox = <<>>
    /\ client_screen = <<>>
    /\ client_pc = "select"
    /\ client_op = "none"
    /\ client_result = "None"
    /\ client_out = NoEvent

ClientNext ==
    \/ \E m \in ClientInbound : ClientServerSends(m)
    \/ ClientServerCloses
    \/ ClientConnReset
    \/ ClientRecv
    \/ \E event \in Event : ClientTuiEvent(event)
    \/ ClientTuiError

SpecClient == ClientInit /\ [][ClientNext]_vars


\* ------------------------------------------------------------ claims on the connection layer

\* C13: when broadcast_frame runs and the writes to a set F of peers fail,
\* every other peer is still written the frame, and afterwards the active
\* set (also as clients() reports it) is the set of peers written to minus
\* exactly F.
C13_BroadcastEvictsExactlyFailed ==
    [][srv_op' = "broadcast_frame"
        => /\ failed' \subseteq Recipients
           /\ written' = Recipients \ failed'
           /\ connected_clients' = Recipients \ failed'
           /\ clients(Srv)' = Recipients \ failed']_vars

\* Three peers, the write to the second fails: the first and the third were
\* written the frame and are the active set.
C13_Witness ==
    /\ srv_op = "broadcast_frame"
    /\ failed = {2}
    /\ written = {1, 3}
    /\ connected_clients = {1, 3}

\* C14: broadcast_frame returns Ok exactly when every write succeeded (also
\* when there was no peer to write to); otherwise it returns the Broadcast
\* error, whose list holds exactly one entry for each peer whose write failed,
\* and each of those peers is already out of the active set.
C14_BroadcastResult ==
    [][srv_op' = "broadcast_frame"
        => /\ srv_result'.kind \in {"Ok", "Broadcast"}
           /\ (srv_result'.kind = "Ok") <=> (failed' = {})
           /\ Range(srv_result'.errors) = failed'
           /\ Len(srv_result'.errors) = Cardinality(failed')
           /\ \A i \in 1..Len(srv_result'.errors) :
                  srv_result'.errors[i] \notin connected_clients']_vars

\* A broadcast in which two writes failed and one succeeded.
C14_Witness ==
    /\ srv_op = "broadcast_frame"
    /\ srv_result.kind = "Broadcast"
    /\ Len(srv_result.errors) = 2
    /\ Cardinality(failed) = 2
    /\ written # {}

\* A broadcast to nobody returns Ok.
C14_WitnessEmpty ==
    /\ srv_op = "broadcast_frame"
    /\ srv_result.kind = "Ok"
    /\ written = {}
    /\ failed = {}
    /\ drained = {}

\* C15: broadcast_frame can always run, whatever the handoff queue holds
\* (the drain uses try_recv and does not wait); it leaves the queue empty,
\* and every connection that was queued when it began is sent the frame of
\* that very broadcast and, unless its write failed, is in the active set
\* afterwards; a queued connection that is up is written the frame.
C15_QueuedJoinBroadcast ==
    /\ [](ENABLED BroadcastFrame)
    /\ [][srv_op' = "broadcast_frame"
           => /\ connections_rx' = <<>>
              /\ drained' = Range(connections_rx)
              /\ \A p \in Range(connections_rx) :
                    /\ p \in written' \cup failed'
                    /\ p \in connected_clients' <=> p \notin failed'
                    /\ link[p] = "up" => p \in written']_vars

\* Two connections were queued behind one active peer; the broadcast wrote
\* to all three.
C15_Witness ==
    /\ srv_op = "broadcast_frame"
    /\ Cardinality(drained) = 2
    /\ Cardinality(written) = 3
    /\ connected_clients = written
    /\ connections_rx = <<>>

\* C17: in a state a Server call has just returned into, no peer is in the
\* active set on whose connection a Server call has already observed a
\* failed write, a failed read or the end of the stream.
C17_ObservedFailuresRemoved ==
    srv_result.kind \in {"Ok", "Broadcast", "Frame", "ReadFrame"}
        => connected_clients \cap observed_failed = {}

\* ------------------------------------------------------------ claims on the run loop

\* No stream of the active set has anything to yield: the set is empty, or
\* every peer in it is connected and has sent nothing.
NothingToRead ==
    \A p \in connected_clients : inbox[p] = 0 /\ link[p] = "up"

\* The run loop waits in select! and the model lets the timer go on.
Waiting ==
    /\ pc = "select"
    /\ ~panicked
    /\ completed_focus_sessions <= HostSessions

C18_QuitDisconnectsAll ==
    /\ [](pc = "exited" => connected_clients = {})
    /\ [][pc' = "exited" /\ pc # "exited"
            => /\ srv_op' = "disconnect_all"
               /\ connected_clients' = {}
               /\ clients(Srv)' = {}]_vars

\* The loop was left through a Quit that a peer sent, with the peer in the
\* active set until then.
C18_Witness ==
    /\ pc = "exited"
    /\ branch = "server"
    /\ srv_op = "disconnect_all"
    /\ connected_clients = {}
    /\ link[1] = "none"

\* ------------------------------------------------------------ claims on the wire protocol

\* C19: deserializing the frame that serialize made of a message gives that
\* message back, for every message of every family (Event with each of the
\* six commands, Display, Notify); and the host that handles the
\* SkipActivity event it decoded from such a frame ends in the state that
\* skip_activity() gives.
C19_RoundTrip ==
    /\ [][wire_step' = "deserialize" /\ wire_damage = "none"
            => wire_decoded' = [ok |-> TRUE, msg |-> wire_msg]]_vars
    /\ [][(/\ wire_step' = "deliver"
           /\ wire_damage = "none"
           /\ wire_msg = [kind |-> "Event",
                          event |-> [cmd |-> "SkipActivity", d |-> 0]])
            => /\ activity' = skip_activity(Cur).activity
               /\ progress' = skip_activity(Cur).progress
               /\ completed_focus_sessions' =
                      skip_activity(Cur).completed_focus_sessions
               /\ timer_is_active' = skip_activity(Cur).timer_is_active
               /\ current_activity_duration_override' =
                      skip_activity(Cur).current_activity_duration_override
               /\ settings' = settings
               /\ ~panicked']_vars

\* A SkipActivity event went over the wire undamaged and was handled: the
\* timer has left the first Focus activity.
C19_Witness ==
    /\ wire_step = "deliver"
    /\ wire_damage = "none"
    /\ wire_msg = [kind |-> "Event",
                   event |-> [cmd |-> "SkipActivity", d |-> 0]]
    /\ wire_decoded = [ok |-> TRUE, msg |-> wire_msg]
    /\ activity = "ShortBreak"
    /\ completed_focus_sessions = 1

\* C20: deserializing a frame that is empty, cut short, or carries a
\* variant index that names no variant returns the Deserialize error and
\* no message, for ClientMessage and ServerMessage (and NetworkProtocol)
\* alike.
C20_DamagedFrameIsError ==
    wire_step = "deserialize" /\ wire_damage # "none"
        => wire_decoded = [ok |-> FALSE, err |-> "Deserialize"]

\* A ServerMessage::Display frame lost its last byte and was refused.
C20_Witness ==
    /\ wire_step = "deserialize"
    /\ wire_family = "ServerMessage"
    /\ wire_msg.kind = "Display"
    /\ wire_damage = "truncated"
    /\ Len(wire_frame) = Len(serialize(wire_family, wire_msg)) - 1
    /\ wire_decoded = [ok |-> FALSE, err |-> "Deserialize"]

\* C21: when the server has closed the connection, a call of recv_frame or
\* send_frame that returns an error returns ServerDisconnect, and run_inner
\* ends with that error.
C21_ClosedIsServerDisconnect ==
    [][(/\ client_conn = "closed"
        /\ client_op' \in {"recv_frame", "send_frame"}
        /\ client_pc' = "failed")
       => client_result' = "ServerDisconnect"]_vars

\* A send_frame on a connection the server has closed fails with SendFrame.
C21_SendFailsOnClosed ==
    /\ client_conn = "closed"
    /\ client_op = "send_frame"
    /\ client_result = "SendFrame"
    /\ client_pc = "failed"

\* C29: increase_progress called on a State whose timer is not active leaves
\* activity, progress, completed_focus_sessions, the override and
\* timer_is_active unchanged.
C29_InactiveAdvanceChangesNothing ==
    [][(op' = "increase_progress" /\ ~timer_is_active)
       => UNCHANGED state_vars]_vars

\* What the run loop has of C29: a tick that fires while the timer is not
\* active changes nothing in the State.
C29_InactiveTickChangesNothing ==
    [][(pc = "select" /\ branch' = "tick" /\ ~timer_is_active)
       => UNCHANGED state_vars]_vars

\* C28: an iteration of the accept loop leaves connected_clients as it is and
\* only sends the accepted connection on the channel; connected_clients
\* changes only in a step of broadcast_frame (accept_queued, eviction),
\* recv_frame (accept_one) or disconnect_all.
C28_AcceptLoopOnlyEnqueues ==
    [][/\ (srv_op' = "listen"
           => /\ connected_clients' = connected_clients
              /\ \E p \in Peers : connections_rx' = Append(connections_rx, p))
       /\ (connected_clients' # connected_clients
           => srv_op' \in {"broadcast_frame", "recv_frame",
                           "disconnect_all"})]_vars

\* The accept loop has queued a connection while other peers are in the map.
C28_Witness ==
    /\ srv_op = "listen"
    /\ connections_rx # <<>>
    /\ connected_clients # {}
    /\ Range(connections_rx) \cap connected_clients = {}

\* C25: every step of the run loop that changes the current activity
\* broadcasts a Notify message to the peers.
C25_ActivityChangeNotifies ==
    [][(pc = "select" /\ activity' # activity)
       => srv_op' = "broadcast_frame"]_vars

\* What the code has of C25: a tick broadcasts Notify exactly when it
\* changed the activity, and no other branch broadcasts it.
C25_TickChangeNotifies ==
    [][pc = "select"
       => (srv_op' = "broadcast_frame"
           <=> (branch' = "tick" /\ activity' # activity))]_vars

C27_PeerFailureEvicts ==
    [][(pc \in {"render", "select"} /\ srv_op' = "broadcast_frame"
        /\ failed' # {})
       => /\ connected_clients'
                = (connected_clients \cup Range(connections_rx)) \ failed'
          /\ (pc = "render" => UNCHANGED state_vars)]_vars

\* C24: the run loop ends only in a step that handles a Quit event (no
\* tick, other command, connect, disconnect or transmission failure ends
\* it), and once it has ended the State never changes again.
C24_OnlyQuitEndsLoop ==
    [][/\ (Running /\ ~Running'
           => /\ pc' = "exited"
              /\ branch' \in {"tui", "server"}
              /\ srv_op' = "disconnect_all")
       /\ (~Running => UNCHANGED <<state_vars, pc>>)]_vars

\* What the code has of C24: once run_inner has returned, no event is
\* handled and the State does not change.
C24_EndedStaysEnded ==
    [][~Running => UNCHANGED <<state_vars, pc>>]_vars

\* The run loop has ended in the Display broadcast, with no Quit.
C24_EndedByBroadcast ==
    /\ pc = "failed"
    /\ srv_op = "broadcast_frame"
    /\ srv_result.kind = "Broadcast"
    /\ branch = "none"

\* C30: a received frame that does not decode, or that decodes to a Display
\* or Notify message, is ignored: the State and the connection set are
\* unchanged, the peer that sent it stays connected, the tick reference is
\* not reset, and the loop goes on to its next iteration.
C30_BadFrameIgnored ==
    [][(pc = "select" /\ inbound' = IgnoredMessage)
       => /\ UNCHANGED state_vars
          /\ UNCHANGED connected_clients
          /\ srv_peer' \in connected_clients'
          /\ link'[srv_peer'] = link[srv_peer']
          /\ ~clock_reset'
          /\ pc' = "render"]_vars

\* The host has received a frame that does not decode, or a Display or
\* Notify message, from a connected peer while the session was under way.
C30_Witness ==
    /\ inbound = IgnoredMessage
    /\ branch = "server"
    /\ pc = "render"
    /\ srv_peer \in connected_clients
    /\ progress > 0

\* C23: for every event e and every state of the host, the step that
\* handles e read from the terminal and the step that handles e received
\* as an Event message from any peer both end in the State that
\* handle_event gives, with the same reset of the tick reference and the
\* same decision to quit; a Quit from either ends the loop and disconnects
\* the peers.
C23_SameHandling ==
    [][(pc = "select" /\ branch' \in {"tui", "server"} /\ inbound' \in Event)
       => LET r == handle_event(Cur, inbound')
          IN  /\ Cur' = r.state
              /\ clock_reset' = r.reset
              /\ (pc' = "exited") = r.quit
              /\ (pc' = "render") = ~r.quit
              /\ (r.quit => connected_clients' = {})]_vars

\* An Event message from a peer has started the timer, and the tick
\* reference was reset.
C23_Witness ==
    /\ branch = "server"
    /\ srv_op = "recv_frame"
    /\ srv_result.kind = "Frame"
    /\ inbound.cmd = "ToggleTimer"
    /\ clock_reset
    /\ timer_is_active
    /\ pc = "render"

\* An event from the terminal has started the timer, and the tick
\* reference was reset.
C23_WitnessLocal ==
    /\ branch = "tui"
    /\ inbound.cmd = "ToggleTimer"
    /\ clock_reset
    /\ timer_is_active
    /\ pc = "render"

C26_NoIdleTimeInProgress ==
    /\ [](timer_is_active => idle_in_ref = 0)
    /\ [][(pc = "select" /\ branch' = "tui" /\ ~timer_is_active
           /\ timer_is_active')
          => since_ref' = 0 /\ clock_reset']_vars
    /\ [][(pc = "select" /\ branch' = "tick" /\ timer_is_active)
          => Cur' = increase_progress(Cur, since_ref)
             /\ idle_in_ref = 0]_vars

\* After inactive time had passed, a command started the timer again, time
\* passed, and a tick added it to progress.
C26_Witness ==
    /\ branch = "tick"
    /\ idle_dropped > 0
    /\ timer_is_active
    /\ progress > 0
    /\ since_ref = 0

\* C32: extend_activity and reduce_activity change no field but the duration
\* override; start_timer, stop_timer and toggle_timer change no field but
\* timer_is_active (set, cleared, flipped), and toggle_timer applied twice
\* gives the State back; no operation ever changes the Settings.
C32_FrameOfOperations ==
    /\ [](toggle_timer(toggle_timer(Cur)) = Cur)
    /\ [][/\ settings' = settings
          /\ (op' \in {"extend_activity", "reduce_activity"}
              => UNCHANGED <<activity, progress, completed_focus_sessions,
                             timer_is_active>>)
          /\ (op' \in {"start_timer", "stop_timer", "toggle_timer"}
              => /\ UNCHANGED <<activity, progress, completed_focus_sessions,
                                current_activity_duration_override, panicked>>
                 /\ timer_is_active' = CASE op' = "start_timer" -> TRUE
                                         [] op' = "stop_timer" -> FALSE
                                         [] OTHER -> ~timer_is_active)]_vars

\* reduce_activity has shortened an activity that was under way.
C32_Witness ==
    /\ op = "reduce_activity"
    /\ changed
    /\ progress > 0
    /\ current_activity_duration_override # None

\* C31: a peer on whose stream recv_frame has observed a read failure is
\* not in clients() when the next broadcast_frame returns.
C31_ReadFailureEvictedByBroadcast ==
    [][srv_op' = "broadcast_frame"
       => clients(Srv)' \cap observed_failed = {}]_vars

\* A broadcast_frame has returned Ok with a peer still in the map whose
\* read failure recv_frame had observed before.
C31_StillConnected ==
    /\ srv_op = "broadcast_frame"
    /\ srv_result.kind = "Ok"
    /\ connected_clients \cap observed_failed # {}

----------------------------------------------------------------------------
C37_WitnessEmpty ==
    /\ srv_op = "recv_frame"
    /\ srv_result.kind = "Pending"
    /\ srv_peer = 0
    /\ \E p \in drained : connected_clients = {p} /\ inbox[p] > 0

----------------------------------------------------------------------------
\* C35. When hosting, every handled event other than Quit (a tick, a local
\* input event, an Event message of a peer) is followed, before any further
\* event is handled, by the broadcast of a Display message computed from the
\* state that the event left: the handling step leads to the top of the loop,
\* and the step taken there broadcasts with the timer state unchanged.
C35_DisplayAfterEveryEvent ==
    /\ [][(pc = "select" /\ pc' # "exited"
            /\ (branch' = "tick" \/ inbound'.cmd \notin {"none", "ignored"}))
            => pc' = "render"]_vars
    /\ [][(pc = "render" /\ srv_op' # "tui_error")
            => /\ srv_op' = "broadcast_frame"
               /\ written' = Recipients \ failed'
               /\ UNCHANGED state_vars]_vars

\* The loop has ended in the tick branch, on the result of the Notify
\* broadcast, with no Display of the new activity sent.
C35_EndedBeforeDisplay ==
    /\ pc = "failed"
    /\ branch = "tick"
    /\ srv_op = "broadcast_frame"

----------------------------------------------------------------------------
C36_WitnessQuit == client_pc = "exited" /\ client_op = "quit"

PState ==
    [activity |-> activity,
     progress |-> progress,
     num_activity |-> num_activity,
     timer_is_stopped |-> timer_is_stopped,
     settings |-> settings]

PomodoroState_new(s) ==
    [activity |-> "Focus",
     progress |-> 0,
     num_activity |-> 0,
     timer_is_stopped |-> ~s.start_automatically,
     settings |-> s]

\* PomodoroState::increase_progress: the activity that follows a Focus is
\* chosen by num_activity, which every ended activity increments.
PomodoroState_increase_progress(self, duration) ==
    LET p == self.progress + duration
        max_duration ==
            CASE self.activity = "Focus" -> self.settings.focus_duration
              [] self.activity = "ShortBreak"
                    -> self.settings.short_break_duration
              [] self.activity = "LongBreak"
                    -> self.settings.long_break_duration
        n == self.num_activity + 1
    IN  IF p >= max_duration
        THEN [self EXCEPT
                !.progress = p - max_duration,
                !.num_activity = n,
                !.activity = CASE self.activity = "Focus"
                                    -> IF n % 4 = 0 THEN "LongBreak"
                                       ELSE "ShortBreak"
                               [] self.activity = "ShortBreak" -> "Focus"
                               [] self.activity = "LongBreak" -> "Focus"]
        ELSE [self EXCEPT !.progress = p]

PomodoroState_handle_event(self, event) ==
    CASE event = "Pause" -> [self EXCEPT !.timer_is_stopped = TRUE]
      [] event = "Resume" -> [self EXCEPT !.timer_is_stopped = FALSE]

\* A step of PomodoroState: the fields are assigned, nothing else changes.
SetPState(s2) ==
    /\ activity' = s2.activity
    /\ progress' = s2.progress
    /\ num_activity' = s2.num_activity
    /\ timer_is_stopped' = s2.timer_is_stopped
    /\ focus_expiries' = IF activity = "Focus" /\ s2.num_activity # num_activity
                         THEN focus_expiries + 1 ELSE focus_expiries
    /\ UNCHANGED <<completed_focus_sessions, timer_is_active,
                   current_activity_duration_override, panicked,
                   arg, changed, focus_skips, settings>>
    /\ UNCHANGED net_vars
    /\ UNCHANGED host_vars
    /\ UNCHANGED clock_vars
    /\ UNCHANGED wire_vars
    /\ UNCHANGED client_vars
    /\ UNCHANGED <<accepted_clients, clients_field, listening, held, rx_open,
                   st_pc, ui_pc, events, close_ui>>

PStateIncreaseProgress(duration) ==
    /\ progress + duration <= DurationMax
    /\ focus_expiries <= MaxSessions
    /\ op' = "increase_progress"
    /\ SetPState(PomodoroState_increase_progress(PState, duration))

PStateHandleEvent(event) ==
    /\ op' = "handle_event"
    /\ SetPState(PomodoroState_handle_event(PState, event))

PStateInit ==
    /\ \E s \in SettingsSet :
          /\ TimerFresh(s)
          /\ num_activity = PomodoroState_new(s).num_activity
          /\ timer_is_stopped = PomodoroState_new(s).timer_is_stopped
    /\ NetIdle
    /\ pc = "offline"
    /\ branch = "none"
    /\ clock_reset = FALSE
    /\ inbound = NoEvent
    /\ ClockIdle
    /\ WireIdle
    /\ ClientIdle
    /\ accepted_clients = {}
    /\ clients_field = {}
    /\ listening = TRUE
    /\ held = 0
    /\ rx_open = TRUE
    /\ st_pc = "none"
    /\ ui_pc = "none"
    /\ events = <<>>
    /\ close_ui = 0

PStateNext ==
    \/ \E duration \in 0..MaxElapsed : PStateIncreaseProgress(duration)
    \/ \E event \in {"Pause", "Resume"} : PStateHandleEvent(event)

SpecPomodoroState == PStateInit /\ [][PStateNext]_vars

\* C34. In PomodoroState, the break entered when the k-th Focus ends is
\* LongBreak iff k % 4 = 0, else ShortBreak.
C34_LongBreakEveryFourthFocus ==
    [][(activity = "Focus" /\ activity' # "Focus")
        => activity' = IF focus_expiries' % 4 = 0 THEN "LongBreak"
                       ELSE "ShortBreak"]_vars

\* The fourth Focus has ended and a ShortBreak was entered.
C34_FourthFocusShortBreak ==
    /\ focus_expiries = 4
    /\ num_activity = 7
    /\ activity = "ShortBreak"

\* What the code does instead: num_activity is odd whenever a Focus ends, so
\* no LongBreak is ever entered.
C34_NeverLongBreak == activity # "LongBreak"

\* ============================================================ the earlier two-map Server
\* Model of the Server of src/src/app/net.rs, which keeps the connections it
\* accepted in accepted_clients until the next broadcast moves them to
\* connected_clients, and a public copy `clients` of the keys (clients_field
\* here). next_message only reads from the streams and changes neither map.

AppServer ==
    [connected_clients |-> connected_clients,
     accepted_clients |-> accepted_clients,
     clients |-> clients_field]

merge_client_collections(self) ==
    [self EXCEPT
        !.connected_clients = @ \cup self.accepted_clients,
        !.accepted_clients = {},
        !.clients = self.connected_clients \cup self.accepted_clients]

\* broadcast_message, where F is the set of addresses whose send returns Err.
broadcast_message(self, F) ==
    LET s1 == merge_client_collections(self)
        errors == collect_errors(s1.connected_clients \cap F)
    IN  [server |-> disconnect_each(s1, errors),
         result |-> IF errors = <<>>
                    THEN [kind |-> "Ok", errors |-> <<>>]
                    ELSE [kind |-> "Broadcast", errors |-> errors]]

\* A call on the two-map Server: it becomes s2, the connections of the peers
\* that left the map are dropped, and nothing outside the Server changes.
AppServerStep(s2, name, F, result) ==
    /\ connected_clients' = s2.connected_clients
    /\ accepted_clients' = s2.accepted_clients
    /\ clients_field' = s2.clients
    /\ Dropped(connected_clients \ s2.connected_clients)
    /\ srv_op' = name
    /\ failed' = F
    /\ srv_result' = result
    /\ UNCHANGED <<connections_rx, srv_peer, written, drained,
                   observed_failed>>
    /\ UNCHANGED <<activity, progress, completed_focus_sessions,
                   timer_is_active, settings,
                   current_activity_duration_override, panicked,
                   op, arg, changed, focus_expiries, focus_skips>>
    /\ UNCHANGED host_vars
    /\ UNCHANGED clock_vars
    /\ UNCHANGED wire_vars
    /\ UNCHANGED client_vars
    /\ UNCHANGED <<num_activity, timer_is_stopped, listening, held, rx_open,
                   st_pc, ui_pc, events, close_ui>>

\* accept_connection: the accepted stream is inserted into accepted_clients.
AppAcceptConnection(p) ==
    /\ link[p] = "none"
    /\ connected_clients' = connected_clients
    /\ accepted_clients' = accepted_clients \cup {p}
    /\ clients_field' = clients_field
    /\ link' = [link EXCEPT ![p] = "up"]
    /\ srv_op' = "accept_connection"
    /\ failed' = {}
    /\ srv_result' = [kind |-> "Ok", errors |-> <<>>]
    /\ UNCHANGED <<inbox, connections_rx, srv_peer, written, drained,
                   observed_failed>>
    /\ UNCHANGED <<activity, progress, completed_focus_sessions,
                   timer_is_active, settings,
                   current_activity_duration_override, panicked,
                   op, arg, changed, focus_expiries, focus_skips>>
    /\ UNCHANGED host_vars
    /\ UNCHANGED clock_vars
    /\ UNCHANGED wire_vars
    /\ UNCHANGED client_vars
    /\ UNCHANGED <<num_activity, timer_is_stopped, listening, held, rx_open,
                   st_pc, ui_pc, events, close_ui>>

AppBroadcastMessage ==
    \E F \in SUBSET {p \in connected_clients \cup accepted_clients :
                        link[p] = "down"} :
        AppServerStep(broadcast_message(AppServer, F).server,
                      "broadcast_message", F,
                      broadcast_message(AppServer, F).result)

AppDisconnectAll ==
    AppServerStep(disconnect_all(AppServer), "disconnect_all", {},
                  [kind |-> "Ok", errors |-> <<>>])

AppServerInit ==
    /\ TimerFresh([focus_duration |-> MaxSetting,
                   short_break_duration |-> MaxSetting,
                   long_break_duration |-> MaxSetting,
                   start_automatically |-> FALSE])
    /\ ServerBound
    /\ pc = "offline"
    /\ branch = "none"
    /\ clock_reset = FALSE
    /\ inbound = NoEvent
    /\ ClockIdle
    /\ AuxIdle
    /\ WireIdle
    /\ ClientIdle

AppServerNext ==
    \/ \E p \in Peers : AppAcceptConnection(p)
    \/ \E p \in Peers : PeerDrop(p)
    \/ AppBroadcastMessage
    \/ AppDisconnectAll

SpecAppServer == AppServerInit /\ [][AppServerNext]_vars

\* C33. In the two-map Server the public field `clients` equals the key set
\* of connected_clients after every operation.
C33_ClientsIsKeySet == clients_field = connected_clients

\* broadcast_message has just evicted a peer, which `clients` still lists.
C33_StaleAfterEviction ==
    /\ srv_op = "broadcast_message"
    /\ failed # {}
    /\ failed \subseteq clients_field
    /\ failed \cap connected_clients = {}

\* What the code keeps: every key of connected_clients is in `clients`.
C33_ClientsCoversKeySet == connected_clients \subseteq clients_field

\* ============================================================ the accept loop
\* Model of `listen` (src/src/net/server.rs), the task that bind() spawns,
\* step by step: it accepts a connection (held), then sends it on the bounded
\* channel, waiting while the channel is full; the Server takes connections
\* from the channel in broadcast_frame and recv_frame. The Server may be
\* dropped (rx_open becomes FALSE), which closes the channel.

\* A step of the accept loop or the drop of the Server: the timer, the run
\* loop and the frames in flight stay.
ListenOnly ==
    /\ UNCHANGED <<activity, progress, completed_focus_sessions,
                   timer_is_active, settings,
                   current_activity_duration_override, panicked,
                   op, arg, changed, focus_expiries, focus_skips>>
    /\ UNCHANGED <<inbox, observed_failed>>
    /\ UNCHANGED host_vars
    /\ UNCHANGED clock_vars
    /\ UNCHANGED wire_vars
    /\ UNCHANGED client_vars
    /\ UNCHANGED <<num_activity, timer_is_stopped, accepted_clients,
                   clients_field, st_pc, ui_pc, events, close_ui>>

\* try_accept_connection returns Ok((addr, stream)).
ListenAccept(p) ==
    /\ listening /\ held = 0
    /\ link[p] = "none"
    /\ held' = p
    /\ link' = [link EXCEPT ![p] = "up"]
    /\ NoCall("accept")
    /\ UNCHANGED <<connections_rx, connected_clients, listening, rx_open>>
    /\ ListenOnly

\* try_accept_connection returns Err: ignored, the loop goes on.
ListenAcceptFails ==
    /\ listening /\ held = 0
    /\ NoCall("accept_failed")
    /\ UNCHANGED <<connections_rx, connected_clients, link, held, listening,
                   rx_open>>
    /\ ListenOnly

\* A send that would give up on a full channel and drop the connection.
ListenSend_drops_when_full ==
    /\ listening /\ held # 0
    /\ IF rx_open /\ Len(connections_rx) < ChannelCapacity
       THEN /\ connections_rx' = Append(connections_rx, held)
            /\ UNCHANGED <<link, listening>>
       ELSE /\ link' = [link EXCEPT ![held] = "none"]
            /\ listening' = rx_open
            /\ UNCHANGED connections_rx
    /\ held' = 0
    /\ NoCall("listen_send")
    /\ UNCHANGED <<connected_clients, rx_open>>
    /\ ListenOnly

\* tx.send((addr, stream)).await: completes when the channel has room; on a
\* closed channel it returns Err, the connection is dropped and the loop
\* breaks.
ListenSend ==
    /\ listening /\ held # 0
    /\ IF rx_open
       THEN /\ Len(connections_rx) < ChannelCapacity
            /\ connections_rx' = Append(connections_rx, held)
            /\ UNCHANGED <<link, listening>>
       ELSE /\ link' = [link EXCEPT ![held] = "none"]
            /\ listening' = FALSE
            /\ UNCHANGED connections_rx
    /\ held' = 0
    /\ NoCall("listen_send")
    /\ UNCHANGED <<connected_clients, rx_open>>
    /\ ListenOnly

\* The Server is dropped: the receiver and every stream it owns are gone.
ServerDropped ==
    /\ rx_open
    /\ rx_open' = FALSE
    /\ connections_rx' = <<>>
    /\ connected_clients' = {}
    /\ link' = [p \in Peers |->
                  IF p \in Recipients THEN "none" ELSE link[p]]
    /\ NoCall("drop")
    /\ UNCHANGED <<held, listening>>
    /\ ListenOnly

\* One iteration of the engine: the broadcast at the top of the run loop.
EngineIterates == rx_open /\ BroadcastFrame

ListenInit ==
    /\ TimerFresh([focus_duration |-> MaxSetting,
                   short_break_duration |-> MaxSetting,
                   long_break_duration |-> MaxSetting,
                   start_automatically |-> FALSE])
    /\ ServerBound
    /\ pc = "offline"
    /\ branch = "none"
    /\ clock_reset = FALSE
    /\ inbound = NoEvent
    /\ ClockIdle
    /\ AuxIdle
    /\ WireIdle
    /\ ClientIdle

ListenNext ==
    \/ \E p \in Peers : ListenAccept(p)
    \/ ListenAcceptFails
    \/ ListenSend
    \/ ServerDropped
    \/ EngineIterates
    \/ rx_open /\ RecvAccept
    \/ \E p \in Peers : PeerDrop(p)

\* The runtime polls the accept task when the channel has room, and the
\* engine keeps iterating while the Server exists.
SpecListen ==
    /\ ListenInit
    /\ [][ListenNext]_vars
    /\ WF_vars(ListenSend)
    /\ WF_vars(EngineIterates)

\* C38. Every connection the accept loop accepted is sent on the channel
\* once (a held connection leaves the loop only by the send, and as long as
\* the Server exists the send appends it to the queue; no address is queued
\* twice or queued while in the map), a full channel makes the loop wait, a
\* failed accept leaves it running, and it stops only when the Server is
\* gone; while the engine keeps iterating, every held or queued connection
\* is eventually taken into the map.
C38_AcceptedEntersActiveSet ==
    /\ [](/\ \A i, j \in 1..Len(connections_rx) :
                 (i # j) => connections_rx[i] # connections_rx[j]
          /\ Range(connections_rx) \cap connected_clients = {}
          /\ held \notin Range(connections_rx) \cup connected_clients
          /\ Len(connections_rx) <= ChannelCapacity)
    /\ [][/\ (held # 0 /\ held' # held)
               => /\ srv_op' = "listen_send"
                  /\ held' = 0
                  /\ (rx_open
                      => connections_rx' = Append(connections_rx, held))
          /\ (srv_op' = "accept_failed") => (listening' /\ held' = 0)
          /\ (listening /\ ~listening') => ~rx_open]_vars
    /\ \A p \in Peers :
          (held = p \/ p \in Range(connections_rx))
              ~> (p \in drained \/ ~rx_open)

\* The accept loop holds a connection while the channel is full.
C38_Witness ==
    /\ rx_open /\ listening
    /\ held # 0
    /\ Len(connections_rx) = ChannelCapacity

\* A connection that waited for room has been taken into the map.
C38_WitnessEntered ==
    /\ srv_op = "broadcast_frame"
    /\ Cardinality(drained) = ChannelCapacity
    /\ drained \subseteq connected_clients
    /\ held # 0

\* ============================================================ the threaded local session
\* Model of run_local_session (src/src/main.rs): the state-transformer
\* thread and the UI thread (src/src/ui.rs), connected by three unbounded
\* channels: events (UI to state), ui (state to UI, its content is not
\* followed) and close_ui (state to UI). The ends of a channel that a thread
\* owns are dropped when it exits: a send to an exited thread fails, a
\* receive from one fails once the channel is empty.
ThreadEvents == {"ToggleTimer", "SkipActivity", "Quit"}

\* A step of one of the two threads; nothing else changes.
ThreadStep(st, ui, ev, cl, stopped) ==
    /\ st_pc' = st
    /\ ui_pc' = ui
    /\ events' = ev
    /\ close_ui' = cl
    /\ timer_is_stopped' = stopped
    /\ UNCHANGED <<activity, progress, completed_focus_sessions,
                   timer_is_active, settings,
                   current_activity_duration_override, panicked,
                   op, arg, changed, focus_expiries, focus_skips>>
    /\ UNCHANGED net_vars
    /\ UNCHANGED host_vars
    /\ UNCHANGED clock_vars
    /\ UNCHANGED wire_vars
    /\ UNCHANGED client_vars
    /\ UNCHANGED <<num_activity, accepted_clients, clients_field, listening,
                   held, rx_open>>

\* state_transformer_thread, top of the loop: `ui_tx.send(state.clone())?`
\* fails if the UI thread has exited; then the stopped timer blocks in
\* recv(), the running one polls try_iter().
StSend ==
    /\ st_pc = "send"
    /\ ThreadStep(IF ui_pc = "done" THEN "done"
                  ELSE IF timer_is_stopped THEN "recv" ELSE "drain",
                  ui_pc, events, close_ui, timer_is_stopped)

\* A blocking receive that would not notice that the sender is gone.
StEvents_recv_blocks ==
    /\ st_pc \in {"recv", "chain", "drain"}
    /\ IF events # <<>>
       THEN LET event == Head(events)
            IN  IF event = "Quit"
                THEN ThreadStep("done", ui_pc, Tail(events),
                                IF ui_pc = "done" THEN close_ui
                                ELSE close_ui + 1,
                                timer_is_stopped)
                ELSE ThreadStep(IF st_pc = "recv" THEN "chain" ELSE st_pc,
                                ui_pc, Tail(events), close_ui,
                                IF event = "ToggleTimer"
                                THEN ~timer_is_stopped
                                ELSE timer_is_stopped)
       ELSE CASE st_pc = "recv"
                   -> /\ FALSE
                      /\ ThreadStep("done", ui_pc, events, close_ui,
                                    timer_is_stopped)
              [] st_pc = "chain"
                   -> ThreadStep("send", ui_pc, events, close_ui,
                                 timer_is_stopped)
              [] st_pc = "drain"
                   -> \E parked \in {timer_is_stopped, TRUE} :
                         ThreadStep("send", ui_pc, events, close_ui, parked)

\* state_transformer_thread, the event loops. "recv": `events_rx.recv()?`
\* blocks until an event is there and fails when the channel is empty and
\* the UI thread has exited; "chain" and "drain": try_iter() yields what is
\* queued. handle_event: Quit sends the close notification (`?`) and
\* returns; ToggleTimer toggles the timer. When the running timer has
\* drained the queue it sleeps and increase_progress is applied, which may
\* park the timer at the end of an activity.
StEvents ==
    /\ st_pc \in {"recv", "chain", "drain"}
    /\ IF events # <<>>
       THEN LET event == Head(events)
            IN  IF event = "Quit"
                THEN ThreadStep("done", ui_pc, Tail(events),
                                IF ui_pc = "done" THEN close_ui
                                ELSE close_ui + 1,
                                timer_is_stopped)
                ELSE ThreadStep(IF st_pc = "recv" THEN "chain" ELSE st_pc,
                                ui_pc, Tail(events), close_ui,
                                IF event = "ToggleTimer"
                                THEN ~timer_is_stopped
                                ELSE timer_is_stopped)
       ELSE CASE st_pc = "recv"
                   -> /\ ui_pc = "done"
                      /\ ThreadStep("done", ui_pc, events, close_ui,
                                    timer_is_stopped)
              [] st_pc = "chain"
                   -> ThreadStep("send", ui_pc, events, close_ui,
                                 timer_is_stopped)
              [] st_pc = "drain"
                   -> \E parked \in {timer_is_stopped, TRUE} :
                         ThreadStep("send", ui_pc, events, close_ui, parked)

\* ui_thread: the terminal is set up.
UiSetup ==
    /\ ui_pc = "setup"
    /\ ThreadStep(st_pc, "poll", events, close_ui, timer_is_stopped)

\* ui_thread, top of the loop: close_rx.try_recv() is Ok (break),
\* Disconnected (break with an error) or Empty (go on); after a break the
\* terminal is restored and the thread returns.
UiPoll ==
    /\ ui_pc = "poll"
    /\ IF close_ui > 0
       THEN ThreadStep(st_pc, "done", events, close_ui - 1, timer_is_stopped)
       ELSE ThreadStep(st_pc, IF st_pc = "done" THEN "done" ELSE "draw",
                       events, close_ui, timer_is_stopped)

\* ui_thread, the rest of the iteration: the state is drawn, and the input
\* event read, if any, is sent with `events_tx.send(event)?`, which fails if
\* the state thread has exited.
UiDraw(input) ==
    /\ ui_pc = "draw"
    /\ IF input = "none"
       THEN ThreadStep(st_pc, "poll", events, close_ui, timer_is_stopped)
       ELSE IF st_pc = "done"
       THEN ThreadStep(st_pc, "done", events, close_ui, timer_is_stopped)
       ELSE /\ Len(events) <= MaxInbox
            /\ ThreadStep(st_pc, "poll", Append(events, input), close_ui,
                          timer_is_stopped)

\* ui_thread: a terminal call returns an error (`?`).
UiFails ==
    /\ ui_pc \in {"setup", "draw"}
    /\ ThreadStep(st_pc, "done", events, close_ui, timer_is_stopped)

ThreadInit ==
    /\ TimerFresh([focus_duration |-> MaxSetting,
                   short_break_duration |-> MaxSetting,
                   long_break_duration |-> MaxSetting,
                   start_automatically |-> FALSE])
    /\ NetIdle
    /\ pc = "offline"
    /\ branch = "none"
    /\ clock_reset = FALSE
    /\ inbound = NoEvent
    /\ ClockIdle
    /\ WireIdle
    /\ ClientIdle
    /\ num_activity = 0
    /\ timer_is_stopped = TRUE
    /\ accepted_clients = {}
    /\ clients_field = {}
    /\ listening = TRUE
    /\ held = 0
    /\ rx_open = TRUE
    /\ st_pc = "send"
    /\ ui_pc = "setup"
    /\ events = <<>>
    /\ close_ui = 0

ThreadNext ==
    \/ StSend
    \/ StEvents
    \/ UiSetup
    \/ UiPoll
    \/ \E input \in ThreadEvents \cup {"none"} : UiDraw(input)
    \/ UiFails

\* Each thread that can take a step eventually takes one: the scheduler runs
\* every runnable thread, and the sleeps are finite.
SpecThreads ==
    /\ ThreadInit
    /\ [][ThreadNext]_vars
    /\ WF_vars(StSend \/ StEvents)
    /\ WF_vars(UiSetup \/ UiPoll \/ UiFails
                  \/ \E input \in ThreadEvents \cup {"none"} : UiDraw(input))

\* C39. In the threaded local session, whenever the state-transformer thread
\* or the UI thread has exited, the other thread eventually exits too, and
\* an exited thread stays exited.
C39_BothThreadsExit ==
    /\ (st_pc = "done") ~> (ui_pc = "done")
    /\ (ui_pc = "done") ~> (st_pc = "done")
    /\ [][(st_pc = "done" => st_pc' = "done")
           /\ (ui_pc = "done" => ui_pc' = "done")]_vars

\* The UI thread has exited on an error while the state thread, its timer
\* stopped, is blocked in recv() on the empty events channel.
C39_Witness ==
    /\ ui_pc = "done"
    /\ st_pc = "recv"
    /\ events = <<>>
    /\ close_ui = 0

\* The state thread has returned after a Quit with the timer running; the UI
\* thread is still in its loop.
C39_WitnessQuit ==
    /\ st_pc = "done"
    /\ close_ui = 1
    /\ ~timer_is_stopped
    /\ ui_pc = "draw"

\* Both threads have exited.
C39_WitnessJoined == st_pc = "done" /\ ui_pc = "done"

=============================================================================
